---- MODULE Spec2Model ----
(***************************************************************************)
(* Event-driven consistency substrate of the e-commerce backend: the       *)
(* transactional outbox and its relay worker, the order-service handlers   *)
(* of the payment outcome events, the order saga over the broker, and the  *)
(* inbox deduplication of the notification consumers.                      *)
(*                                                                         *)
(* Every service owns a PostgreSQL database.  A database is a record of    *)
(* tables; a transaction is a pair [base, view]: base is the committed     *)
(* database, view is what the transaction sees and will commit.  A write   *)
(* through the transaction handle changes view only; Commit installs view, *)
(* Rollback keeps base.                                                    *)
(***************************************************************************)
EXTENDS Integers, Sequences, FiniteSets, TLC

VARIABLES
    orderDb,      \* order service database: users mirror, orders, outbox
    lastCall,     \* the last handler call and what it returned
    relay,        \* relay instances of the order service (processBatch position)
    broker,       \* messages acknowledged by the broker, per topic
    env,          \* environment: broker reachability, injected failure counts
    productDb,    \* catalog service database: products, outbox
    paymentDb,    \* payment service database: payments, outbox
    authDb,       \* auth service database: users, outbox
    offsets,      \* per consumer group and topic: messages handed to the handler
    notifDb,      \* notification service database: processed_events
    inbox,        \* notification handlers inside ProcessWithDeduplication
    mail,         \* per event id: side effects (emails) that ran successfully
    session,      \* one consumer-group session on one partition
    replay,       \* a saga event log and how often each event was delivered
    catalogTx,    \* transactions in flight on the products table
    payTx,        \* ProcessPayment executions in flight
    gateway,      \* the gateway: its breakers and the last request it answered
    cache,        \* the catalog's product cache and the last read through it
    reset,        \* password resets: tokens issued and used, sessions, last call
    logins,       \* refresh sessions of the auth service, its clock, Refresh calls in flight
    feed          \* an outbox filled by overlapping transactions, and what a tick sent

edgeVars == <<gateway, cache, reset, logins, feed>>

moreVars == <<session, replay, catalogTx, payTx, edgeVars>>

restVars == <<productDb, paymentDb, authDb, offsets, notifDb, inbox, mail, moreVars>>

vars == <<orderDb, lastCall, relay, broker, env, restVars>>

----------------------------------------------------------------------------
(* Bounds of the model *)

MaxOrders == 2        \* orders created per behaviour
MaxOutbox == 3        \* rows per outbox table
NRelays == 2          \* relay instances draining one outbox
MaxOutages == 1       \* times the broker becomes unreachable
MaxDbFaults == 1      \* injected database failures in relay ticks
MaxEvents == 3        \* outbox rows over all services in the atomicity runs
SeedStock == 2        \* stock of the seeded product
SeedPrice == 1        \* price of the seeded product
NHandlers == 2        \* concurrent deliveries to the notification service
NEventIds == 2       \* event ids delivered to the notification service
MaxLog == 3           \* messages in the partition of a consumer session
NWorkers == 2         \* concurrent catalog transactions
MaxCatalogOps == 3    \* catalog operations started in one behaviour
MaxPayOps == 4        \* ProcessPayment executions started in one behaviour
MaxHttp == 6          \* requests the gateway answers in one behaviour
MaxDeliveries == 2    \* deliveries of one event of a replayed log
MaxFeedTx == 3        \* CreateOrder transactions begun in one behaviour
MaxLoginOps == 4      \* Register, Login, Logout and Refresh calls in one behaviour
SessionTicks == 1     \* the 30 days of a refresh token and its session, in ticks

(* Program constants *)

MAX_ATTEMPTS == 10    \* attempts < 10 in GetUnpublishedEvents
batchSize == 50       \* NewOutboxProcessor
MaxActionAttempts == 3
TripRequests == 5     \* ReadyToTrip: counts.Requests >= 5
TripRatioTenths == 6  \* ReadyToTrip: failureRatio >= 0.6
MaxRequests == 3      \* gobreaker.Settings.MaxRequests  \* for i := 0; i < 3; i++ in ProcessWithDeduplication

NULL == "NULL"
NoErr == "nil"

UserIds == {999}
ProductIds == {1}
OrderIds == 1..MaxOrders

Topics == {"user_events", "order_events", "payment_events", "product_events"}
Relays == 1..NRelays
Groups == {"order-service-group-v2", "product-service-group", "payment-service-group"}
Handlers == 1..NHandlers
Workers == 1..NWorkers
Targets == {"auth", "product", "order"}
EventIds == 1..NEventIds
Emails == {"a@x.io"}
Passwords == {"pw1", "pw2"}
Tokens == {"tok1"}
IdleHandler == [pc |-> "idle", event_id |-> 0, i |-> 0, result |-> "none"]
IdleRelay == [pc |-> "idle", batch |-> <<>>, pos |-> 1, view |-> <<>>, aborted |-> FALSE]

(* the item lists CreateOrder is called with *)
ItemLists == { <<[product_id |-> 1, quantity |-> 1]>> }

----------------------------------------------------------------------------
(* Local transactions (pgx.Tx) *)

TxBegin(db) == [base |-> db, view |-> db]

TxCommit(tx) == tx.view

TxRollback(tx) == tx.base

----------------------------------------------------------------------------
(* Outbox repository: pkg/outbox/repository/outbox_repository.go *)

OutboxRow(event) ==
    [ aggregate_type |-> event.aggregate_type,
      aggregate_id   |-> event.aggregate_id,
      event_type     |-> event.event_type,
      payload        |-> event.payload,
      topic          |-> event.topic,
      published_at   |-> NULL,
      attempts       |-> 0,
      last_error     |-> NULL ]

(* the insert on the pool instead of the transaction: committed at once   *)
SaveOutboxEvent_OnPool(tx, event, dbFails) ==
    IF dbFails THEN [tx |-> tx, err |-> "db error"]
    ELSE [tx  |-> [tx EXCEPT !.view.outbox = Append(@, OutboxRow(event)),
                             !.base.outbox = Append(@, OutboxRow(event))],
          err |-> NoErr]

(* INSERT INTO outbox (...) through the caller's transaction; a failed     *)
(* statement leaves the transaction unchanged and returns the error.       *)
SaveOutboxEvent(tx, event, dbFails) ==
    IF dbFails THEN [tx |-> tx, err |-> "db error"]
    ELSE [tx  |-> [tx EXCEPT !.view.outbox = Append(@, OutboxRow(event))],
          err |-> NoErr]

(* UPDATE outbox SET published_at = NOW(), last_error = NULL WHERE id = $1 *)
MarkEventPublished(outbox, id) ==
    [outbox EXCEPT ![id].published_at = "NOW", ![id].last_error = NULL]

(* UPDATE outbox SET published_at = NULL, last_error = $1,                 *)
(*                   attempts = attempts + 1 WHERE id = $2                 *)
MarkEventFailed(outbox, id, errMsg) ==
    [outbox EXCEPT ![id].published_at = NULL,
                   ![id].last_error = errMsg,
                   ![id].attempts = @ + 1]

(* UPDATE outbox SET published_at = NULL, last_error = NULL WHERE id = $1  *)
MarkEventUnpublished(outbox, id) ==
    [outbox EXCEPT ![id].published_at = NULL, ![id].last_error = NULL]

RECURSIVE TakeUpTo(_, _)
TakeUpTo(s, n) ==
    IF n = 0 \/ s = <<>> THEN <<>> ELSE <<Head(s)>> \o TakeUpTo(Tail(s), n - 1)

Selectable_NoAttemptsLimit(row) == row.published_at = NULL

Selectable_Inverted(row) == row.published_at # NULL /\ row.attempts < MAX_ATTEMPTS

(* WHERE published_at IS NULL AND attempts < 10 *)
Selectable(row) == row.published_at = NULL /\ row.attempts < MAX_ATTEMPTS

RECURSIVE IdsWhere(_, _, _)
IdsWhere(outbox, locked, i) ==
    IF i > Len(outbox) THEN <<>>
    ELSE IF Selectable(outbox[i]) /\ i \notin locked
         THEN <<i>> \o IdsWhere(outbox, locked, i + 1)
         ELSE IdsWhere(outbox, locked, i + 1)

(* SELECT ... FROM outbox WHERE published_at IS NULL AND attempts < 10     *)
(* ORDER BY created_at ASC LIMIT $1 FOR UPDATE SKIP LOCKED: the ids of the *)
(* candidate rows, without the rows other transactions hold locked; the    *)
(* selected rows become locked by the caller.  The rows of this sequence   *)
(* are inserted by handlers that run one at a time, so their created_at    *)
(* order is the order of the sequence.                                     *)
GetUnpublishedEvents_NoRowLock(outbox, locked, limit) ==
    TakeUpTo(IdsWhere(outbox, {}, 1), limit)

GetUnpublishedEvents(outbox, locked, limit) ==
    TakeUpTo(IdsWhere(outbox, locked, 1), limit)

----------------------------------------------------------------------------
(* Order repository *)

ErrOrderNotFound == "ErrOrderNotFound"

(* UPDATE orders SET status = $1 WHERE id = $2; zero rows affected is      *)
(* ErrOrderNotFound.                                                       *)
RepoChangeOrderStatus(tx, orderID, status, dbFails) ==
    IF dbFails THEN [tx |-> tx, err |-> "failed to update order"]
    ELSE IF orderID \notin DOMAIN tx.view.orders
         THEN [tx |-> tx, err |-> ErrOrderNotFound]
         ELSE [tx  |-> [tx EXCEPT !.view.orders[orderID].status = status],
               err |-> NoErr]

(* SELECT ... FROM order_items WHERE order_id = $1 *)
GetAllItemsOfOrder(tx, orderID) ==
    IF orderID \in DOMAIN tx.view.orders THEN tx.view.orders[orderID].items ELSE <<>>

(* INSERT INTO orders ... RETURNING id, then one INSERT per item. The      *)
(* insert fails on the users foreign key when the user is not mirrored.    *)
RepoCreateOrder(tx, userID, items, dbFails) ==
    IF dbFails \/ userID \notin { u.id : u \in tx.view.users }
    THEN [tx |-> tx, err |-> "failed to insert order", id |-> 0]
    ELSE LET id == Len(tx.view.orders) + 1
         IN [tx  |-> [tx EXCEPT !.view.orders =
                         Append(@, [user_id |-> userID, status |-> "new", items |-> items])],
             err |-> NoErr,
             id  |-> id]

(* INSERT INTO users (id, email) on the pool (autocommit); id is the       *)
(* primary key and email is UNIQUE; a unique violation (23505) on either   *)
(* is skipped without error.                                               *)
SaveUserDuplication(db, event, dbFails) ==
    IF dbFails THEN [db |-> db, err |-> "db error"]
    ELSE IF \E u \in db.users : u.id = event.user_id \/ u.email = event.email
    THEN [db |-> db, err |-> NoErr]
    ELSE [db |-> [db EXCEPT !.users =
                     @ \cup {[id |-> event.user_id, email |-> event.email]}],
          err |-> NoErr]

----------------------------------------------------------------------------
(* Order service *)

(* orderService.emitEvent: wraps the payload in the envelope and saves the *)
(* row with topic payment_events and no aggregate or event type columns.   *)
OrderEmitEvent(tx, eventType, payload, dbFails) ==
    SaveOutboxEvent(tx,
        [ aggregate_type |-> "", aggregate_id |-> "", event_type |-> "",
          payload |-> [event |-> eventType, payload |-> payload],
          topic |-> "payment_events" ],
        dbFails)

(* fail: the I/O call that fails, 0 for none:                              *)
(* 1 Begin, 2 ChangeOrderStatus, 3 GetAllItemsOfOrder, 4 SaveOutboxEvent,  *)
(* 5 Commit.  Every error return runs the deferred Rollback.               *)
CancelOrder(db, orderID, fail) ==
    IF fail = 1 THEN [db |-> db, err |-> "begin failed"]
    ELSE
    LET tx0 == TxBegin(db)
        r1  == RepoChangeOrderStatus(tx0, orderID, "cancelled", fail = 2)
    IN  IF r1.err = ErrOrderNotFound
        THEN [db |-> TxRollback(r1.tx), err |-> "order not found"]
        ELSE IF r1.err # NoErr
        THEN [db |-> TxRollback(r1.tx), err |-> "failed to cancel order"]
        ELSE IF fail = 3
        THEN [db |-> TxRollback(r1.tx), err |-> "failed to query items of order"]
        ELSE
        LET orderItems == GetAllItemsOfOrder(r1.tx, orderID)
            r2 == OrderEmitEvent(r1.tx, "OrderCancelled",
                      [order_id |-> orderID, items |-> orderItems], fail = 4)
        IN  IF r2.err # NoErr
            THEN [db |-> TxRollback(r2.tx), err |-> "failed to emit event"]
            ELSE IF fail = 5
            THEN [db |-> TxRollback(r2.tx), err |-> "commit failed"]
            ELSE [db |-> TxCommit(r2.tx), err |-> NoErr]

(* ChangeOrderStatus whose transaction is rolled back instead of committed *)
ChangeOrderStatus_NoCommit(db, orderID, fail) ==
    IF fail = 1 THEN [db |-> db, err |-> "failed to begin transaction"]
    ELSE
    LET r1 == RepoChangeOrderStatus(TxBegin(db), orderID, "paid", fail = 2)
    IN  [db |-> TxRollback(r1.tx), err |-> r1.err]

(* fail: 1 Begin, 2 ChangeOrderStatus, 3 Commit *)
ChangeOrderStatus(db, orderID, fail) ==
    IF fail = 1 THEN [db |-> db, err |-> "failed to begin transaction"]
    ELSE
    LET tx0 == TxBegin(db)
        r1  == RepoChangeOrderStatus(tx0, orderID, "paid", fail = 2)
    IN  IF r1.err = ErrOrderNotFound
        THEN [db |-> TxRollback(r1.tx), err |-> "order not found"]
        ELSE IF r1.err # NoErr
        THEN [db |-> TxRollback(r1.tx), err |-> "failed to update order status"]
        ELSE IF fail = 3
        THEN [db |-> TxRollback(r1.tx), err |-> "failed to commit transaction"]
        ELSE [db |-> TxCommit(r1.tx), err |-> NoErr]

(* fail: 1 Begin, 2 orderRepo.CreateOrder, 3 SaveOutboxEvent, 4 Commit *)
CreateOrder(db, userID, items, fail) ==
    IF fail = 1 THEN [db |-> db, err |-> "failed to start transaction", id |-> 0]
    ELSE
    LET tx0 == TxBegin(db)
        r1  == RepoCreateOrder(tx0, userID, items, fail = 2)
    IN  IF r1.err # NoErr
        THEN [db |-> TxRollback(r1.tx), err |-> "failed to create order", id |-> 0]
        ELSE
        LET eventItems == [i \in DOMAIN items |->
                              [product_id |-> items[i].product_id,
                               quantity   |-> items[i].quantity]]
            orderData == [order_id |-> r1.id, event_id |-> r1.id,
                          user_id |-> userID, items |-> eventItems]
            r2 == SaveOutboxEvent(r1.tx,
                      [ aggregate_type |-> "Order",
                        aggregate_id   |-> ToString(r1.id),
                        event_type     |-> "OrderCreated",
                        payload        |-> [event |-> "OrderCreated", payload |-> orderData],
                        topic          |-> "order_events" ],
                      fail = 3)
        IN  IF r2.err # NoErr
            THEN [db |-> TxRollback(r2.tx), err |-> "failed to save outbox event", id |-> 0]
            ELSE IF fail = 4
            THEN [db |-> TxRollback(r2.tx), err |-> "failed to commit transaction", id |-> 0]
            ELSE [db |-> TxCommit(r2.tx), err |-> NoErr, id |-> r1.id]

(* orderService.HandleUserRegistered *)
HandleUserRegistered(db, event, fail) ==
    SaveUserDuplication(db, event, fail = 1)

----------------------------------------------------------------------------
(* Catalog repository: products table *)

ErrInsufficientStock == "ErrInsufficientStock"
ErrProductNotFound == "ErrProductNotFound"

(* UPDATE products SET stock_quantity = stock_quantity + $1 WHERE id = $2; *)
(* zero rows affected is ErrProductNotFound.                               *)
IncreaseStock(tx, id, quantity, dbFails) ==
    IF dbFails THEN [tx |-> tx, err |-> "db error"]
    ELSE IF id \notin DOMAIN tx.view.products
         THEN [tx |-> tx, err |-> ErrProductNotFound]
         ELSE [tx  |-> [tx EXCEPT !.view.products[id].stock_quantity = @ + quantity],
               err |-> NoErr]

(* the UPDATE without its stock_quantity >= $2 condition *)
RepoDecreaseStock_Unconditional(tx, id, quantity, dbFails) ==
    IF dbFails \/ id \notin DOMAIN tx.view.products
    THEN [tx |-> tx, err |-> "db error", price |-> 0]
    ELSE [tx    |-> [tx EXCEPT !.view.products[id].stock_quantity = @ - quantity],
          err   |-> NoErr,
          price |-> tx.view.products[id].price]

(* SELECT price FROM products WHERE id = $1, then                          *)
(* UPDATE products SET stock_quantity = stock_quantity - $2                *)
(* WHERE id = $1 AND stock_quantity >= $2 AND deleted_at IS NULL;          *)
(* zero rows affected is ErrInsufficientStock.                             *)
RepoDecreaseStock(tx, id, quantity, dbFails) ==
    IF dbFails \/ id \notin DOMAIN tx.view.products
    THEN [tx |-> tx, err |-> "db error", price |-> 0]
    ELSE LET row == tx.view.products[id]
         IN  IF row.stock_quantity >= quantity /\ row.deleted_at = NULL
             THEN [tx    |-> [tx EXCEPT !.view.products[id].stock_quantity = @ - quantity],
                   err   |-> NoErr,
                   price |-> row.price]
             ELSE [tx |-> tx, err |-> ErrInsufficientStock, price |-> 0]

(* INSERT INTO products (...) RETURNING id *)
RepoCreateProduct(tx, product, dbFails) ==
    IF dbFails THEN [tx |-> tx, err |-> "error creating product", id |-> 0]
    ELSE [tx  |-> [tx EXCEPT !.view.products =
                      Append(@, [price |-> product.price,
                                 stock_quantity |-> product.stock_quantity,
                                 deleted_at |-> NULL])],
          err |-> NoErr,
          id  |-> Len(tx.view.products) + 1]

----------------------------------------------------------------------------
(* Catalog service: services/product/internal/service/product_service.go  *)

(* the loop of ReturnStock over the items of the event, from item k on *)
RECURSIVE IncreaseAll(_, _, _, _)
IncreaseAll(tx, items, k, dbFails) ==
    IF k > Len(items) THEN [tx |-> tx, err |-> NoErr]
    ELSE LET r == IncreaseStock(tx, items[k].product_id, items[k].quantity, dbFails)
         IN  IF r.err # NoErr THEN r
             ELSE IncreaseAll(r.tx, items, k + 1, dbFails)

(* fail: 1 Begin, 2 IncreaseStock, 3 Commit *)
ReturnStock(db, event, fail) ==
    IF fail = 1 THEN [db |-> db, err |-> "failed to begin transaction"]
    ELSE
    LET r1 == IncreaseAll(TxBegin(db), event.items, 1, fail = 2)
    IN  IF r1.err # NoErr THEN [db |-> TxRollback(r1.tx), err |-> r1.err]
        ELSE IF fail = 3 THEN [db |-> TxRollback(r1.tx), err |-> "commit failed"]
        ELSE [db |-> TxCommit(r1.tx), err |-> NoErr]

(* the loop of ReserveProduct over the items of the event, from item k on; *)
(* total accumulates price * quantity                                      *)
RECURSIVE DecreaseAll(_, _, _, _, _)
DecreaseAll(tx, items, k, total, dbFails) ==
    IF k > Len(items) THEN [tx |-> tx, err |-> NoErr, total |-> total]
    ELSE LET r == RepoDecreaseStock(tx, items[k].product_id, items[k].quantity, dbFails)
         IN  IF r.err # NoErr THEN [tx |-> r.tx, err |-> r.err, total |-> total]
             ELSE DecreaseAll(r.tx, items, k + 1,
                              total + r.price * items[k].quantity, dbFails)

(* ReserveProduct without the deferred Rollback: what the loop wrote       *)
(* before the failing item stays                                           *)
ReserveProduct_NoRollback(db, event, fail) ==
    IF fail = 1 THEN [db |-> db, err |-> "begin failed"]
    ELSE
    LET r1 == DecreaseAll(TxBegin(db), event.items, 1, 0, fail = 2)
    IN  [db |-> TxCommit(r1.tx), err |-> IF r1.err # NoErr THEN r1.err ELSE "failed to commit"]

(* fail: 1 Begin, 2 DecreaseStock, 3 SaveOutboxEvent, 4 Commit *)
ReserveProduct(db, event, fail) ==
    IF fail = 1 THEN [db |-> db, err |-> "begin failed"]
    ELSE
    LET r1 == DecreaseAll(TxBegin(db), event.items, 1, 0, fail = 2)
    IN  IF r1.err # NoErr THEN [db |-> TxRollback(r1.tx), err |-> r1.err]
        ELSE
        LET successEvent == [order_id |-> event.order_id,
                             user_id  |-> event.user_id,
                             amount   |-> r1.total]
            r2 == SaveOutboxEvent(r1.tx,
                      [ aggregate_type |-> "Inventory",
                        aggregate_id   |-> ToString(event.order_id),
                        event_type     |-> "InventoryReserved",
                        payload        |-> [event |-> "InventoryReserved",
                                            payload |-> successEvent],
                        topic          |-> "payment_events" ],
                      fail = 3)
        IN  IF r2.err # NoErr
            THEN [db |-> TxRollback(r2.tx), err |-> "failed to save outbox event"]
            ELSE IF fail = 4
            THEN [db |-> TxRollback(r2.tx), err |-> "failed to commit"]
            ELSE [db |-> TxCommit(r2.tx), err |-> NoErr]

(* productService.Create; fail: 1 Begin, 2 productRepo.Create,             *)
(* 3 SaveOutboxEvent, 4 Commit                                             *)
CreateProduct(db, product, fail) ==
    IF fail = 1 THEN [db |-> db, err |-> "begin failed", id |-> 0]
    ELSE
    LET r1 == RepoCreateProduct(TxBegin(db), product, fail = 2)
    IN  IF r1.err # NoErr
        THEN [db |-> TxRollback(r1.tx), err |-> "error creating product", id |-> 0]
        ELSE
        LET r2 == SaveOutboxEvent(r1.tx,
                      [ aggregate_type |-> "Product",
                        aggregate_id   |-> ToString(r1.id),
                        event_type     |-> "ProductCreated",
                        payload        |-> [product_id |-> r1.id,
                                            event |-> "ProductCreated"],
                        topic          |-> "product_events" ],
                      fail = 3)
        IN  IF r2.err # NoErr
            THEN [db |-> TxRollback(r2.tx), err |-> "failed to save outbox event", id |-> 0]
            ELSE IF fail = 4
            THEN [db |-> TxRollback(r2.tx), err |-> "failed to commit transaction", id |-> 0]
            ELSE [db |-> TxCommit(r2.tx), err |-> NoErr, id |-> r1.id]

----------------------------------------------------------------------------
(* Payment repository and service *)

(* INSERT INTO payments (order_id, user_id, amount, status, ...) *)
RepoCreatePayment(tx, payment, dbFails) ==
    IF dbFails THEN [tx |-> tx, err |-> "db error"]
    ELSE [tx |-> [tx EXCEPT !.view.payments = Append(@, payment)], err |-> NoErr]

(* SELECT id, order_id, status FROM payments WHERE order_id = $1 on the    *)
(* pool: is there a committed payment row of the order                     *)
GetOrderByID(db, orderID) ==
    \E k \in DOMAIN db.payments : db.payments[k].order_id = orderID

(* paymentService.emitEvent: envelope saved with topic payment_events and  *)
(* no aggregate or event type columns                                      *)
PaymentEmitEvent(tx, eventType, payload, dbFails) ==
    SaveOutboxEvent(tx,
        [ aggregate_type |-> "", aggregate_id |-> "", event_type |-> "",
          payload |-> [event |-> eventType, payload |-> payload],
          topic |-> "payment_events" ],
        dbFails)

(* the mock gateway with the two outcomes exchanged *)
PaymentOutcome_Swapped(orderID) ==
    IF orderID % 2 = 0 THEN [status |-> "PAID", eventType |-> "PaymentSucceeded"]
    ELSE [status |-> "FAIL", eventType |-> "PaymentFailed"]

(* the mock gateway: an even order id fails, an odd one succeeds *)
PaymentOutcome(orderID) ==
    IF orderID % 2 = 0 THEN [status |-> "FAIL", eventType |-> "PaymentFailed"]
    ELSE [status |-> "PAID", eventType |-> "PaymentSucceeded"]

(* fail: 1 GetOrderByID, 2 Begin, 3 paymentRepo.Create, 4 emitEvent,       *)
(* 5 Commit                                                                *)
ProcessPayment(db, event, fail) ==
    IF fail = 1 THEN [db |-> db, err |-> "error getting order by id"]
    ELSE IF GetOrderByID(db, event.order_id) THEN [db |-> db, err |-> NoErr]
    ELSE IF fail = 2 THEN [db |-> db, err |-> "error beginning transaction"]
    ELSE
    LET outcome == PaymentOutcome(event.order_id)
        payment == [order_id |-> event.order_id, user_id |-> event.user_id,
                    amount |-> event.amount, status |-> outcome.status]
        r1 == RepoCreatePayment(TxBegin(db), payment, fail = 3)
    IN  IF r1.err # NoErr THEN [db |-> TxRollback(r1.tx), err |-> r1.err]
        ELSE
        LET r2 == PaymentEmitEvent(r1.tx, outcome.eventType,
                      [order_id |-> event.order_id, amount |-> event.amount],
                      fail = 4)
        IN  IF r2.err # NoErr THEN [db |-> TxRollback(r2.tx), err |-> r2.err]
            ELSE IF fail = 5
            THEN [db |-> TxRollback(r2.tx), err |-> "failed to commit transaction"]
            ELSE [db |-> TxCommit(r2.tx), err |-> NoErr]

----------------------------------------------------------------------------
(* Auth repository: users table (email is unique) *)

ErrUserAlreadyExists == "ErrUserAlreadyExists"
ErrUserNotFound == "ErrUserNotFound"

(* INSERT INTO users (email, password_hash, activation_token) RETURNING id *)
RepoCreateUser(tx, user, dbFails) ==
    IF dbFails THEN [tx |-> tx, err |-> "error creating user", id |-> 0]
    ELSE IF \E k \in DOMAIN tx.view.users : tx.view.users[k].email = user.email
    THEN [tx |-> tx, err |-> ErrUserAlreadyExists, id |-> 0]
    ELSE [tx  |-> [tx EXCEPT !.view.users =
                      Append(@, [email |-> user.email,
                                 password_hash |-> user.password,
                                 activation_token |-> user.activation_token,
                                 is_activated |-> FALSE,
                                 forgot_password_token |-> NULL])],
          err |-> NoErr,
          id  |-> Len(tx.view.users) + 1]

(* UPDATE users SET forgot_password_token = $1 WHERE email = $2 *)
SetForgotPasswordToken(tx, email, token, dbFails) ==
    IF dbFails THEN [tx |-> tx, err |-> "error setting token for user"]
    ELSE IF ~ \E k \in DOMAIN tx.view.users : tx.view.users[k].email = email
    THEN [tx |-> tx, err |-> ErrUserNotFound]
    ELSE [tx  |-> [tx EXCEPT !.view.users =
                      [k \in DOMAIN @ |->
                          IF @[k].email = email
                          THEN [@[k] EXCEPT !.forgot_password_token = token]
                          ELSE @[k]]],
          err |-> NoErr]

(* The update without its reset of the token column *)
RepoResetPassword_KeepToken(tx, token, newPassword, dbFails) ==
    LET hit == { k \in DOMAIN tx.view.users :
                    tx.view.users[k].forgot_password_token = token }
    IN  IF dbFails THEN [tx |-> tx, err |-> "error resetting user password", email |-> ""]
        ELSE IF hit = {} THEN [tx |-> tx, err |-> ErrUserNotFound, email |-> ""]
        ELSE [tx  |-> [tx EXCEPT !.view.users =
                          [k \in DOMAIN @ |->
                              IF k \in hit
                              THEN [@[k] EXCEPT !.password_hash = newPassword]
                              ELSE @[k]]],
              err |-> NoErr,
              email |-> tx.view.users[CHOOSE k \in hit : \A j \in hit : k <= j].email]

(* UPDATE users SET password_hash = $1, forgot_password_token = ''         *)
(* WHERE forgot_password_token = $2 RETURNING email                        *)
RepoResetPassword(tx, token, newPassword, dbFails) ==
    LET hit == { k \in DOMAIN tx.view.users :
                    tx.view.users[k].forgot_password_token = token }
    IN  IF dbFails THEN [tx |-> tx, err |-> "error resetting user password", email |-> ""]
        ELSE IF hit = {} THEN [tx |-> tx, err |-> ErrUserNotFound, email |-> ""]
        ELSE [tx  |-> [tx EXCEPT !.view.users =
                          [k \in DOMAIN @ |->
                              IF k \in hit
                              THEN [@[k] EXCEPT !.password_hash = newPassword,
                                                !.forgot_password_token = ""]
                              ELSE @[k]]],
              err |-> NoErr,
              email |-> tx.view.users[CHOOSE k \in hit : \A j \in hit : k <= j].email]

----------------------------------------------------------------------------
(* Auth service: services/auth/internal/service/auth_service.go           *)

ErrInvalidToken == "ErrInvalidToken"

(* UPDATE users SET is_activated = true, activation_token = ''             *)
(* WHERE activation_token = $1 RETURNING id, on the pool (autocommit)      *)
VerifyUser(db, token, dbFails) ==
    LET hit == { k \in DOMAIN db.users : db.users[k].activation_token = token }
    IN  IF dbFails THEN [db |-> db, err |-> "error verifying user"]
        ELSE IF hit = {} THEN [db |-> db, err |-> ErrInvalidToken]
        ELSE [db  |-> [db EXCEPT !.users =
                          [k \in DOMAIN @ |->
                              IF k \in hit
                              THEN [@[k] EXCEPT !.is_activated = TRUE,
                                                !.activation_token = ""]
                              ELSE @[k]]],
              err |-> NoErr]

(* authService.Verify *)
Verify(db, token, fail) ==
    LET r == VerifyUser(db, token, fail = 1)
    IN  IF r.err # NoErr THEN [db |-> db, err |-> "error verifying user"]
        ELSE [db |-> r.db, err |-> NoErr]

(* bcrypt.GenerateFromPassword: a one-way image of the password *)
Hash(password) == <<"bcrypt", password>>

(* bcrypt.CompareHashAndPassword *)
CompareHashAndPassword(hash, password) == hash = Hash(password)

ErrPasswordTooShort == "password must be at least 8 characters long"
ErrPasswordTooWeak == "password must contain at least one digit and one letter"

(* Passwords that the validator refuses; every other password of the model *)
(* stands for one of eight or more characters with a letter and a digit.   *)
ShortPassword == "short1"
WeakPassword == "lettersonly"

ValidatePassword(password) ==
    CASE password = ShortPassword -> ErrPasswordTooShort
      [] password = WeakPassword -> ErrPasswordTooWeak
      [] OTHER -> NoErr

(* fail: 1 Begin, 2 userRepo.Create, 3 SaveOutboxEvent, 4 Commit *)
Register(db, email, password, activationToken, fail) ==
    IF ValidatePassword(password) # NoErr
    THEN [db |-> db, err |-> ValidatePassword(password), id |-> 0]
    ELSE IF fail = 1 THEN [db |-> db, err |-> "error starting transaction", id |-> 0]
    ELSE
    LET user == [email |-> email, password |-> Hash(password),
                 activation_token |-> activationToken]
        r1 == RepoCreateUser(TxBegin(db), user, fail = 2)
    IN  IF r1.err # NoErr THEN [db |-> TxRollback(r1.tx), err |-> r1.err, id |-> 0]
        ELSE
        LET userData == [user_id |-> r1.id, email |-> email,
                         activation_token |-> activationToken, event_id |-> r1.id]
            r2 == SaveOutboxEvent(r1.tx,
                      [ aggregate_type |-> "User",
                        aggregate_id   |-> ToString(r1.id),
                        event_type     |-> "UserRegistered",
                        payload        |-> [event |-> "UserRegistered", payload |-> userData],
                        topic          |-> "user_events" ],
                      fail = 3)
        IN  IF r2.err # NoErr
            THEN [db |-> TxRollback(r2.tx), err |-> "failed to save outbox event", id |-> 0]
            ELSE IF fail = 4
            THEN [db |-> TxRollback(r2.tx), err |-> "failed to commit transaction", id |-> 0]
            ELSE [db |-> TxCommit(r2.tx), err |-> NoErr, id |-> r1.id]

(* fail: 1 Begin, 2 SetForgotPasswordToken, 3 SaveOutboxEvent, 4 Commit *)
ForgotPassword(db, email, forgotPasswordToken, fail) ==
    IF fail = 1 THEN [db |-> db, err |-> "failed to begin tx"]
    ELSE
    LET r1 == SetForgotPasswordToken(TxBegin(db), email, forgotPasswordToken, fail = 2)
    IN  IF r1.err # NoErr THEN [db |-> TxRollback(r1.tx), err |-> r1.err]
        ELSE
        LET r2 == SaveOutboxEvent(r1.tx,
                      [ aggregate_type |-> "User",
                        aggregate_id   |-> email,
                        event_type     |-> "UserForgotPassword",
                        payload        |-> [email |-> email,
                                            forgot_password_token |-> forgotPasswordToken,
                                            event |-> "UserForgotPassword"],
                        topic          |-> "user_events" ],
                      fail = 3)
        IN  IF r2.err # NoErr THEN [db |-> TxRollback(r2.tx), err |-> r2.err]
            ELSE IF fail = 4
            THEN [db |-> TxRollback(r2.tx), err |-> "commit transaction failed"]
            ELSE [db |-> TxCommit(r2.tx), err |-> NoErr]

(* fail: 1 Begin, 2 userRepo.ResetPassword, 3 SaveOutboxEvent, 4 Commit *)
ResetPassword(db, token, password, fail) ==
    IF ValidatePassword(password) # NoErr
    THEN [db |-> db, err |-> ValidatePassword(password)]
    ELSE IF fail = 1 THEN [db |-> db, err |-> "begin failed"]
    ELSE
    LET r1 == RepoResetPassword(TxBegin(db), token, Hash(password), fail = 2)
    IN  IF r1.err # NoErr THEN [db |-> TxRollback(r1.tx), err |-> r1.err]
        ELSE
        LET r2 == SaveOutboxEvent(r1.tx,
                      [ aggregate_type |-> "User",
                        aggregate_id   |-> r1.email,
                        event_type     |-> "UserResetPassword",
                        payload        |-> [email |-> r1.email,
                                            event |-> "UserResetPassword"],
                        topic          |-> "user_events" ],
                      fail = 3)
        IN  IF r2.err # NoErr THEN [db |-> TxRollback(r2.tx), err |-> r2.err]
            ELSE IF fail = 4
            THEN [db |-> TxRollback(r2.tx), err |-> "commit transaction failed"]
            ELSE [db |-> TxCommit(r2.tx), err |-> NoErr]

----------------------------------------------------------------------------
(* Initial state *)

InitOrderDb == [users |-> {}, orders |-> <<>>, outbox |-> <<>>]

(* the mirror row of a registered user *)
MirrorRow(u) == [id |-> u, email |-> "a@x.io"]

(* UserRegistered events as the order service decodes them: a zero id and  *)
(* an empty email are what a missing JSON field decodes to                 *)
UserRegisteredEvents == [user_id : UserIds \cup {0}, email : {"a@x.io", ""}]

(* the catalog holds the seeded product; the other tables are empty *)
InitProductDb ==
    [products |-> <<[price |-> SeedPrice, stock_quantity |-> SeedStock,
                     deleted_at |-> NULL]>>,
     outbox |-> <<>>]

InitPaymentDb == [payments |-> <<>>, outbox |-> <<>>]

InitAuthDb == [users |-> <<>>, outbox |-> <<>>]

(* a session that has just claimed an empty partition *)
InitSession == [log |-> 0, pos |-> 1, marked |-> 0, committed |-> 0, handled |-> {}]

(* no event of any order's saga has been delivered *)
InitReplay == [o \in OrderIds |-> [j \in 1..4 |-> 0]]

(* no catalog transaction is open *)
IdleTx == [pc |-> "idle", op |-> "none", order |-> 0, user |-> 0,
           items |-> <<>>, k |-> 0, total |-> 0, rows |-> <<>>]

InitCatalogTx == [tx |-> [w \in Workers |-> IdleTx], started |-> 0]

(* no ProcessPayment is running *)
InitPayTx == [tx |-> [w \in Workers |-> [pc |-> "idle", event |-> NULL]],
              started |-> 0]

(* the breakers as NewCircuitBreaker leaves them, and no request answered *)
NewCircuitBreaker ==
    [state |-> "closed", Requests |-> 0, TotalFailures |-> 0,
     ConsecutiveSuccesses |-> 0]

NoToken == [kind |-> "none", UserID |-> 0, IsActivated |-> FALSE]

NoRequest ==
    [route |-> "none", token |-> NoToken, status |-> 0, code |-> "",
     err |-> "none", rpcs |-> {}, validated |-> FALSE, handled |-> FALSE]

InitGateway ==
    [cb |-> [t \in Targets |-> NewCircuitBreaker], served |-> 0, last |-> NoRequest]

(* an empty Redis, no transaction left open, nothing read yet *)
NoProduct == [id |-> 0, price |-> 0, stock_quantity |-> 0]

InitCache ==
    [keys |-> {}, locked |-> {}, mutated |-> {}, ops |-> 0,
     last |-> [op |-> "none", id |-> 0, fail |-> 0, err |-> NoErr,
               product |-> NoProduct]]

InitReset ==
    [issued |-> {}, used |-> {}, sessions |-> <<>>, ops |-> 0,
     last |-> [op |-> "none", email |-> "", token |-> "", password |-> "",
               err |-> NoErr, reused |-> FALSE]]

(* no session stored, no token generated, no Refresh call in flight *)
NoJwt == [kind |-> "none", user_id |-> 0, exp |-> 0, jti |-> 0]

NoSession == [id |-> 0, user_id |-> 0, token |-> NoJwt, expires_at |-> 0]

IdleRefresh == [pc |-> "idle", token |-> NoJwt, session |-> NoSession]

InitLogins ==
    [sessions |-> {}, nextId |-> 1, jti |-> 0, now |-> 0, ops |-> 0,
     refresh |-> [w \in Workers |-> IdleRefresh],
     tokens |-> {}, granted |-> {},
     last |-> [op |-> "none", w |-> 0, token |-> NoJwt, err |-> NoErr,
               cause |-> NoErr, issued |-> NoJwt, at |-> ""]]

IdleInsert == [pc |-> "idle", started |-> 0, id |-> 0]

(* an empty outbox; the database clock and the id sequence at their start *)
InitFeed == [now |-> 1, nextId |-> 1, begun |-> 0, tx |-> [w \in Workers |-> IdleInsert],
             outbox |-> {}, sent |-> <<>>]

InitRest ==
    /\ productDb = InitProductDb
    /\ paymentDb = InitPaymentDb
    /\ authDb = InitAuthDb
    /\ offsets = [g \in Groups |-> [t \in Topics |-> 0]]
    /\ notifDb = [processed_events |-> <<>>]
    /\ inbox = [h \in Handlers |-> IdleHandler]
    /\ mail = [id \in EventIds |-> 0]
    /\ session = InitSession
    /\ replay = InitReplay
    /\ catalogTx = InitCatalogTx
    /\ payTx = InitPayTx
    /\ gateway = InitGateway
    /\ cache = InitCache
    /\ reset = InitReset
    /\ logins = InitLogins
    /\ feed = InitFeed

InitCommon ==
    /\ orderDb = InitOrderDb
    /\ lastCall = [op |-> "none", order |-> 0, err |-> NoErr]
    /\ relay = [i \in Relays |-> IdleRelay]
    /\ broker = [t \in Topics |-> <<>>]
    /\ env = [brokerUp |-> TRUE, outages |-> 0, dbFaults |-> 0,
             failed |-> [id \in 1..MaxOutbox |-> 0]]
    /\ InitRest

----------------------------------------------------------------------------
(* Handler calls on the order service, as the gRPC server, the consumer    *)
(* loop and the integration tests make them.                               *)

CallHandleUserRegistered(event, fail) ==
    LET r == HandleUserRegistered(orderDb, event, fail)
    IN  /\ orderDb' = r.db
        /\ lastCall' = [op |-> "HandleUserRegistered", order |-> 0, err |-> r.err]
        /\ UNCHANGED <<relay, broker, env, restVars>>

CallCreateOrder(u, items, fail) ==
    /\ Len(orderDb.orders) < MaxOrders
    /\ Len(orderDb.outbox) < MaxOutbox
    /\ LET r == CreateOrder(orderDb, u, items, fail)
       IN  /\ orderDb' = r.db
           /\ lastCall' = [op |-> "CreateOrder", order |-> r.id, err |-> r.err]
    /\ UNCHANGED <<relay, broker, env, restVars>>

CallChangeOrderStatus(o, fail) ==
    /\ LET r == ChangeOrderStatus(orderDb, o, fail)
       IN  /\ orderDb' = r.db
           /\ lastCall' = [op |-> "ChangeOrderStatus", order |-> o, err |-> r.err]
    /\ UNCHANGED <<relay, broker, env, restVars>>

CallCancelOrder(o, fail) ==
    /\ Len(orderDb.outbox) < MaxOutbox
    /\ LET r == CancelOrder(orderDb, o, fail)
       IN  /\ orderDb' = r.db
           /\ lastCall' = [op |-> "CancelOrder", order |-> o, err |-> r.err]
    /\ UNCHANGED <<relay, broker, env, restVars>>

(* The order service under direct delivery of PaymentSucceeded and         *)
(* PaymentFailed events in any order, duplicates included.                 *)
OrderNext ==
    \/ \E ev \in UserRegisteredEvents, f \in 0..1 : CallHandleUserRegistered(ev, f)
    \/ \E u \in UserIds, items \in ItemLists, f \in 0..4 : CallCreateOrder(u, items, f)
    \/ \E o \in OrderIds, f \in 0..3 : CallChangeOrderStatus(o, f)
    \/ \E o \in OrderIds, f \in 0..5 : CallCancelOrder(o, f)

OrderSpec == InitCommon /\ [][OrderNext]_vars

----------------------------------------------------------------------------
(* Kafka producer: pkg/kafka/producer.go *)

(* ProduceMessage marshals the message and sends it with acks=all: the     *)
(* message is in the topic iff the call returns nil.  It fails while the   *)
(* broker is unreachable.                                                  *)
ProduceMessage(b, up, topic, message) ==
    IF up THEN [broker |-> [b EXCEPT ![topic] = Append(@, message)], err |-> NoErr]
    ELSE [broker |-> b, err |-> "error sending message"]

(* payloadMap["event_id"] = event.Id on the decoded payload object *)
WithEventId(payload, id) ==
    [k \in DOMAIN payload \cup {"event_id"} |->
        IF k = "event_id" THEN id ELSE payload[k]]

----------------------------------------------------------------------------
(* Outbox relay: pkg/outbox/worker/worker.go, OutboxProcessor.processBatch *)
(* run by several instances of the order service on the same database.     *)

MarkAfterProduce_AlwaysPublished(view, id, sentErr) ==
    MarkEventPublished(view, id)

(* the bookkeeping of one event: failed when ProduceMessage returned an    *)
(* error, published when it returned nil                                   *)
MarkAfterProduce(view, id, sentErr) ==
    IF sentErr # NoErr THEN MarkEventFailed(view, id, sentErr)
    ELSE MarkEventPublished(view, id)

LockedByOthers(i) ==
    UNION { { relay[j].batch[k] : k \in 1..Len(relay[j].batch) } : j \in Relays \ {i} }

BatchIds(i) == { relay[i].batch[k] : k \in 1..Len(relay[i].batch) }

RelayFetch_SharedRows(i) ==
    /\ relay[i].pc = "idle"
    /\ LET ids == GetUnpublishedEvents(orderDb.outbox, {}, batchSize)
       IN  /\ ids # <<>>
           /\ relay' = [relay EXCEPT ![i] =
                  [pc |-> "publish", batch |-> ids, pos |-> 1,
                   view |-> [id \in {ids[k] : k \in 1..Len(ids)} |-> orderDb.outbox[id]],
                   aborted |-> FALSE]]
    /\ UNCHANGED <<orderDb, lastCall, broker, env, restVars>>

(* Begin and GetUnpublishedEvents; an empty batch returns at once. *)
RelayFetch(i) ==
    /\ relay[i].pc = "idle"
    /\ LET ids == GetUnpublishedEvents(orderDb.outbox, LockedByOthers(i), batchSize)
       IN  /\ ids # <<>>
           /\ relay' = [relay EXCEPT ![i] =
                  [pc |-> "publish", batch |-> ids, pos |-> 1,
                   view |-> [id \in {ids[k] : k \in 1..Len(ids)} |-> orderDb.outbox[id]],
                   aborted |-> FALSE]]
    /\ UNCHANGED <<orderDb, lastCall, broker, env, restVars>>

(* One iteration of the loop over the batch: produce, then mark the row    *)
(* published or failed through the transaction.  dbFails: the bookkeeping  *)
(* statement fails.  A failed MarkEventPublished returns from processBatch *)
(* (the deferred Rollback runs); a failed MarkEventFailed is logged and    *)
(* the loop goes on with the transaction aborted.                          *)
RelayPublish(i, dbFails) ==
    /\ relay[i].pc = "publish"
    /\ relay[i].pos <= Len(relay[i].batch)
    /\ dbFails => env.dbFaults < MaxDbFaults
    /\ LET id    == relay[i].batch[relay[i].pos]
           event == relay[i].view[id]
           sent  == ProduceMessage(broker, env.brokerUp, event.topic,
                                   WithEventId(event.payload, id))
           stmtFails == dbFails \/ relay[i].aborted
       IN  /\ broker' = sent.broker
           /\ IF sent.err # NoErr
              THEN relay' = [relay EXCEPT
                       ![i].view = IF stmtFails THEN @ ELSE MarkAfterProduce(@, id, sent.err),
                       ![i].aborted = stmtFails,
                       ![i].pos = @ + 1]
              ELSE IF stmtFails
                   THEN relay' = [relay EXCEPT ![i] = IdleRelay]
                   ELSE relay' = [relay EXCEPT
                            ![i].view = MarkAfterProduce(@, id, sent.err),
                            ![i].pos = @ + 1]
    /\ env' = [env EXCEPT
                  !.dbFaults = IF dbFails THEN @ + 1 ELSE @,
                  !.failed[relay[i].batch[relay[i].pos]] =
                      IF env.brokerUp THEN @ ELSE @ + 1]
    /\ UNCHANGED <<orderDb, lastCall, restVars>>

RelayCommit_WritesOnFailure(i, dbFails) ==
    /\ relay[i].pc = "publish"
    /\ relay[i].pos > Len(relay[i].batch)
    /\ dbFails => env.dbFaults < MaxDbFaults
    /\ orderDb' = [orderDb EXCEPT !.outbox =
                      [id \in DOMAIN @ |->
                          IF id \in BatchIds(i) THEN relay[i].view[id] ELSE @[id]]]
    /\ relay' = [relay EXCEPT ![i] = IdleRelay]
    /\ env' = [env EXCEPT !.dbFaults = IF dbFails THEN @ + 1 ELSE @]
    /\ UNCHANGED <<lastCall, broker, restVars>>

(* tx.Commit at the end of the batch: the rows of the batch take their     *)
(* values from the transaction; a failed commit (or a commit of an aborted *)
(* transaction) rolls everything back.                                     *)
RelayCommit(i, dbFails) ==
    /\ relay[i].pc = "publish"
    /\ relay[i].pos > Len(relay[i].batch)
    /\ dbFails => env.dbFaults < MaxDbFaults
    /\ orderDb' = IF dbFails \/ relay[i].aborted THEN orderDb
                  ELSE [orderDb EXCEPT !.outbox =
                           [id \in DOMAIN @ |->
                               IF id \in BatchIds(i) THEN relay[i].view[id] ELSE @[id]]]
    /\ relay' = [relay EXCEPT ![i] = IdleRelay]
    /\ env' = [env EXCEPT !.dbFaults = IF dbFails THEN @ + 1 ELSE @]
    /\ UNCHANGED <<lastCall, broker, restVars>>

BrokerDown ==
    /\ env.brokerUp
    /\ env.outages < MaxOutages
    /\ env' = [env EXCEPT !.brokerUp = FALSE, !.outages = @ + 1]
    /\ UNCHANGED <<orderDb, lastCall, relay, broker, restVars>>

BrokerUp ==
    /\ ~env.brokerUp
    /\ env' = [env EXCEPT !.brokerUp = TRUE]
    /\ UNCHANGED <<orderDb, lastCall, relay, broker, restVars>>

RelayInit ==
    /\ orderDb = [InitOrderDb EXCEPT !.users = { MirrorRow(u) : u \in UserIds }]
    /\ lastCall = [op |-> "none", order |-> 0, err |-> NoErr]
    /\ relay = [i \in Relays |-> IdleRelay]
    /\ broker = [t \in Topics |-> <<>>]
    /\ env = [brokerUp |-> TRUE, outages |-> 0, dbFaults |-> 0,
             failed |-> [id \in 1..MaxOutbox |-> 0]]
    /\ InitRest

RelayNext ==
    \/ \E u \in UserIds, items \in ItemLists : CallCreateOrder(u, items, 0)
    \/ \E i \in Relays : RelayFetch(i)
    \/ \E i \in Relays, f \in BOOLEAN : RelayPublish(i, f)
    \/ \E i \in Relays, f \in BOOLEAN : RelayCommit(i, f)
    \/ BrokerDown
    \/ BrokerUp

RelaySpec == RelayInit /\ [][RelayNext]_vars

(* The relay keeps ticking, the bookkeeping and the commit go through when *)
(* the database answers, and an unreachable broker comes back.             *)
RelayFairness ==
    /\ \A i \in Relays : WF_vars(RelayFetch(i))
    /\ \A i \in Relays : WF_vars(RelayPublish(i, FALSE))
    /\ \A i \in Relays : WF_vars(RelayCommit(i, FALSE))
    /\ WF_vars(BrokerUp)

FairRelaySpec == RelaySpec /\ RelayFairness

----------------------------------------------------------------------------
(* The order saga over the broker: every service runs its relay on its own *)
(* outbox and its consumer group on the topics it subscribes to.           *)

OrderGroup == "order-service-group-v2"
ProductGroup == "product-service-group"
PaymentGroup == "payment-service-group"

(* the topic lists of the three NewConsumerGroup calls *)
Subscriptions ==
    [g \in Groups |->
        CASE g = OrderGroup   -> {"order_events", "user_events", "payment_events"}
          [] g = ProductGroup -> {"product_events", "order_events"}
          [] g = PaymentGroup -> {"payment_events"}]

(* the loop of processBatch over the batch, from position k on *)
RECURSIVE PublishAll(_, _, _, _, _)
PublishAll(outbox, b, up, ids, k) ==
    IF k > Len(ids) THEN [outbox |-> outbox, broker |-> b]
    ELSE LET id   == ids[k]
             sent == ProduceMessage(b, up, outbox[id].topic,
                                    WithEventId(outbox[id].payload, id))
         IN  PublishAll(MarkAfterProduce(outbox, id, sent.err), sent.broker, up, ids, k + 1)

(* one whole tick of a relay that runs alone on its outbox and whose       *)
(* bookkeeping and commit succeed                                          *)
processBatch(outbox, b, up) ==
    PublishAll(outbox, b, up, GetUnpublishedEvents(outbox, {}, batchSize), 1)

HasUnpublished(outbox) == GetUnpublishedEvents(outbox, {}, batchSize) # <<>>

OrderRelayTick ==
    /\ HasUnpublished(orderDb.outbox)
    /\ LET r == processBatch(orderDb.outbox, broker, env.brokerUp)
       IN  /\ orderDb' = [orderDb EXCEPT !.outbox = r.outbox]
           /\ broker' = r.broker
    /\ UNCHANGED <<lastCall, relay, env, restVars>>

ProductRelayTick ==
    /\ HasUnpublished(productDb.outbox)
    /\ LET r == processBatch(productDb.outbox, broker, env.brokerUp)
       IN  /\ productDb' = [productDb EXCEPT !.outbox = r.outbox]
           /\ broker' = r.broker
    /\ UNCHANGED <<orderDb, lastCall, relay, env, paymentDb, authDb, offsets,
                   notifDb, inbox, mail, moreVars>>

PaymentRelayTick ==
    /\ HasUnpublished(paymentDb.outbox)
    /\ LET r == processBatch(paymentDb.outbox, broker, env.brokerUp)
       IN  /\ paymentDb' = [paymentDb EXCEPT !.outbox = r.outbox]
           /\ broker' = r.broker
    /\ UNCHANGED <<orderDb, lastCall, relay, env, productDb, authDb, offsets,
                   notifDb, inbox, mail, moreVars>>

(* order Consumer.processMessage *)
OrderProcessMessage(db, msg) ==
    CASE msg.event = "UserRegistered"   -> HandleUserRegistered(db, [user_id |-> msg.payload.user_id,
                                   email |-> msg.payload.email], 0)
      [] msg.event = "PaymentSucceeded" -> ChangeOrderStatus(db, msg.payload.order_id, 0)
      [] msg.event = "PaymentFailed"    -> CancelOrder(db, msg.payload.order_id, 0)
      [] OTHER                          -> [db |-> db, err |-> NoErr]

(* product Consumer.processMessage *)
ProductProcessMessage(db, msg) ==
    CASE msg.event = "OrderCreated"   -> ReserveProduct(db, msg.payload, 0)
      [] msg.event = "OrderCancelled" -> ReturnStock(db, msg.payload, 0)
      [] OTHER                        -> [db |-> db, err |-> NoErr]

(* payment Consumer.processMessage *)
PaymentProcessMessage(db, msg) ==
    CASE msg.event = "InventoryReserved" -> ProcessPayment(db, msg.payload, 0)
      [] OTHER                           -> [db |-> db, err |-> NoErr]

(* the next message of topic t for group g, when there is one *)
HasNext(g, t) == t \in Subscriptions[g] /\ offsets[g][t] < Len(broker[t])

NextMessage(g, t) == broker[t][offsets[g][t] + 1]

(* ConsumeClaim hands the next message to the handler and goes on to the   *)
(* following one whether the handler returned an error or not.             *)
OrderConsume(t) ==
    /\ HasNext(OrderGroup, t)
    /\ LET r == OrderProcessMessage(orderDb, NextMessage(OrderGroup, t))
       IN  /\ orderDb' = r.db
           /\ lastCall' = [op |-> "processMessage", order |-> 0, err |-> r.err]
    /\ offsets' = [offsets EXCEPT ![OrderGroup][t] = @ + 1]
    /\ UNCHANGED <<relay, broker, env, productDb, paymentDb, authDb, notifDb, inbox, mail, moreVars>>

ProductConsume(t) ==
    /\ HasNext(ProductGroup, t)
    /\ LET r == ProductProcessMessage(productDb, NextMessage(ProductGroup, t))
       IN  /\ productDb' = r.db
           /\ lastCall' = [op |-> "processMessage", order |-> 0, err |-> r.err]
    /\ offsets' = [offsets EXCEPT ![ProductGroup][t] = @ + 1]
    /\ UNCHANGED <<orderDb, relay, broker, env, paymentDb, authDb, notifDb, inbox, mail, moreVars>>

PaymentConsume(t) ==
    /\ HasNext(PaymentGroup, t)
    /\ LET r == PaymentProcessMessage(paymentDb, NextMessage(PaymentGroup, t))
       IN  /\ paymentDb' = r.db
           /\ lastCall' = [op |-> "processMessage", order |-> 0, err |-> r.err]
    /\ offsets' = [offsets EXCEPT ![PaymentGroup][t] = @ + 1]
    /\ UNCHANGED <<orderDb, relay, broker, env, productDb, authDb, notifDb, inbox, mail, moreVars>>

SagaNext ==
    \/ \E u \in UserIds, items \in ItemLists : CallCreateOrder(u, items, 0)
    \/ OrderRelayTick
    \/ ProductRelayTick
    \/ PaymentRelayTick
    \/ \E t \in Topics : OrderConsume(t)
    \/ \E t \in Topics : ProductConsume(t)
    \/ \E t \in Topics : PaymentConsume(t)

SagaSpec == RelayInit /\ [][SagaNext]_vars

(* The relays keep ticking and the consumers keep consuming; the broker    *)
(* stays reachable in these behaviours.                                    *)
SagaFairness ==
    /\ WF_vars(OrderRelayTick)
    /\ WF_vars(ProductRelayTick)
    /\ WF_vars(PaymentRelayTick)
    /\ \A t \in Topics : WF_vars(OrderConsume(t))
    /\ \A t \in Topics : WF_vars(ProductConsume(t))
    /\ \A t \in Topics : WF_vars(PaymentConsume(t))

FairSagaSpec == SagaSpec /\ SagaFairness

----------------------------------------------------------------------------
(* The event-emitting operations of the four services called directly,    *)
(* each with every one of its I/O calls failing in turn.                   *)

(* the item lists of the OrderCreated events handed to ReserveProduct: one *)
(* that fits the stock and one whose second item exceeds it                *)
EventItemLists ==
    ItemLists \cup { << [product_id |-> 1, quantity |-> 1],
                        [product_id |-> 1, quantity |-> SeedStock] >> }

NewProducts == { [price |-> SeedPrice, stock_quantity |-> SeedStock] }

CallRegister(email, password, token, fail) ==
    /\ LET r == Register(authDb, email, password, token, fail)
       IN  /\ authDb' = r.db
           /\ lastCall' = [op |-> "Register", order |-> 0, err |-> r.err]
    /\ UNCHANGED <<orderDb, relay, broker, env, productDb, paymentDb, offsets,
                   notifDb, inbox, mail, moreVars>>

CallForgotPassword(email, token, fail) ==
    /\ LET r == ForgotPassword(authDb, email, token, fail)
       IN  /\ authDb' = r.db
           /\ lastCall' = [op |-> "ForgotPassword", order |-> 0, err |-> r.err]
    /\ UNCHANGED <<orderDb, relay, broker, env, productDb, paymentDb, offsets,
                   notifDb, inbox, mail, moreVars>>

CallResetPassword(token, password, fail) ==
    /\ LET r == ResetPassword(authDb, token, password, fail)
       IN  /\ authDb' = r.db
           /\ lastCall' = [op |-> "ResetPassword", order |-> 0, err |-> r.err]
    /\ UNCHANGED <<orderDb, relay, broker, env, productDb, paymentDb, offsets,
                   notifDb, inbox, mail, moreVars>>

CallReserveProduct(event, fail) ==
    /\ LET r == ReserveProduct(productDb, event, fail)
       IN  /\ productDb' = r.db
           /\ lastCall' = [op |-> "ReserveProduct", order |-> event.order_id, err |-> r.err]
    /\ UNCHANGED <<orderDb, relay, broker, env, paymentDb, authDb, offsets,
                   notifDb, inbox, mail, moreVars>>

CallCreateProduct(product, fail) ==
    /\ LET r == CreateProduct(productDb, product, fail)
       IN  /\ productDb' = r.db
           /\ lastCall' = [op |-> "Create", order |-> 0, err |-> r.err]
    /\ UNCHANGED <<orderDb, relay, broker, env, paymentDb, authDb, offsets,
                   notifDb, inbox, mail, moreVars>>

CallProcessPayment(event, fail) ==
    /\ LET r == ProcessPayment(paymentDb, event, fail)
       IN  /\ paymentDb' = r.db
           /\ lastCall' = [op |-> "ProcessPayment", order |-> event.order_id, err |-> r.err]
    /\ UNCHANGED <<orderDb, relay, broker, env, productDb, authDb, offsets,
                   notifDb, inbox, mail, moreVars>>

OrderCreatedEvents ==
    [order_id : OrderIds, user_id : UserIds, items : EventItemLists]

InventoryReservedEvents ==
    [order_id : OrderIds, user_id : UserIds, amount : {SeedPrice}]

(* outbox rows committed over all services *)
TotalOutbox ==
    Len(authDb.outbox) + Len(orderDb.outbox) + Len(productDb.outbox) + Len(paymentDb.outbox)

(* the calls stop when MaxEvents rows have been committed *)
AtomicNext ==
    \/ TotalOutbox < MaxEvents /\
       \E e \in Emails, p \in Passwords, t \in Tokens, f \in 0..4 : CallRegister(e, p, t, f)
    \/ TotalOutbox < MaxEvents /\
       \E e \in Emails, t \in Tokens, f \in 0..4 : CallForgotPassword(e, t, f)
    \/ TotalOutbox < MaxEvents /\
       \E t \in Tokens, p \in Passwords, f \in 0..4 : CallResetPassword(t, p, f)
    \/ TotalOutbox < MaxEvents /\
       \E u \in UserIds, items \in ItemLists, f \in 0..4 : CallCreateOrder(u, items, f)
    \/ TotalOutbox < MaxEvents /\
       \E o \in OrderIds, f \in 0..5 : CallCancelOrder(o, f)
    \/ TotalOutbox < MaxEvents /\
       \E ev \in OrderCreatedEvents, f \in 0..4 : CallReserveProduct(ev, f)
    \/ TotalOutbox < MaxEvents /\
       \E ev \in InventoryReservedEvents, f \in 0..5 : CallProcessPayment(ev, f)
    \/ TotalOutbox < MaxEvents /\
       \E pr \in NewProducts, f \in 0..4 : CallCreateProduct(pr, f)

AtomicSpec == RelayInit /\ [][AtomicNext]_vars

----------------------------------------------------------------------------
(* Inbox deduplication: pkg/outbox/utils/deduplication.go,                 *)
(* ProcessWithDeduplication as the notification handlers of UserRegistered *)
(* and UserForgotPassword call it.  A message may be delivered any number  *)
(* of times, and to several consumers at once.                             *)

AlreadyProcessed_Never(processed, id) == FALSE

(* the primary key of processed_events: a committed row of the id exists *)
AlreadyProcessed(processed, id) ==
    \E k \in DOMAIN processed : processed[k] = id

(* handler h holds an uncommitted processed_events row of the id *)
HoldsRow(h, id) ==
    inbox[h].pc \in {"action", "commit"} /\ inbox[h].event_id = id

ActionStep_CommitUnsent(st, ok) ==
    IF ok \/ st.i >= MaxActionAttempts - 1 THEN [st EXCEPT !.pc = "commit"]
    ELSE [st EXCEPT !.i = @ + 1]

(* one pass of the retry loop: a success leaves the loop with sent = true, *)
(* a failure goes to the next attempt, the last failure returns the error  *)
ActionStep(st, ok) ==
    IF ok THEN [st EXCEPT !.pc = "commit"]
    ELSE IF st.i < MaxActionAttempts - 1 THEN [st EXCEPT !.i = @ + 1]
    ELSE [IdleHandler EXCEPT !.event_id = st.event_id, !.result = "error"]

(* the consumer hands a message with event id id to the handler, which     *)
(* begins its transaction                                                  *)
Deliver(h, id, dbFails) ==
    /\ inbox[h].pc = "idle"
    /\ dbFails => env.dbFaults < MaxDbFaults
    /\ inbox' = [inbox EXCEPT ![h] =
           IF dbFails THEN [IdleHandler EXCEPT !.event_id = id, !.result = "error"]
           ELSE [pc |-> "insert", event_id |-> id, i |-> 0, result |-> "none"]]
    /\ env' = [env EXCEPT !.dbFaults = IF dbFails THEN @ + 1 ELSE @]
    /\ UNCHANGED <<orderDb, lastCall, relay, broker, productDb, paymentDb, authDb,
                   offsets, notifDb, mail, moreVars>>

(* INSERT INTO processed_events (event_id): waits while another            *)
(* transaction holds an uncommitted row of the same id; a duplicate key    *)
(* (23505) returns nil, any other error is returned                        *)
DedupInsert(h, dbFails) ==
    /\ inbox[h].pc = "insert"
    /\ \A h2 \in Handlers \ {h} : ~HoldsRow(h2, inbox[h].event_id)
    /\ dbFails => env.dbFaults < MaxDbFaults
    /\ inbox' = [inbox EXCEPT ![h] =
           IF dbFails THEN [IdleHandler EXCEPT !.event_id = inbox[h].event_id, !.result = "error"]
           ELSE IF AlreadyProcessed(notifDb.processed_events, inbox[h].event_id)
           THEN [IdleHandler EXCEPT !.event_id = inbox[h].event_id, !.result = "skipped"]
           ELSE [@ EXCEPT !.pc = "action"]]
    /\ env' = [env EXCEPT !.dbFaults = IF dbFails THEN @ + 1 ELSE @]
    /\ UNCHANGED <<orderDb, lastCall, relay, broker, productDb, paymentDb, authDb,
                   offsets, notifDb, mail, moreVars>>

DedupAction_FourthAttempt(h, ok) ==
    /\ inbox[h].pc = "action"
    /\ inbox' = [inbox EXCEPT ![h] =
           IF ok THEN [@ EXCEPT !.pc = "commit"]
           ELSE IF @.i < MaxActionAttempts THEN [@ EXCEPT !.i = @ + 1]
           ELSE [IdleHandler EXCEPT !.event_id = inbox[h].event_id, !.result = "error"]]
    /\ mail' = IF ok THEN [mail EXCEPT ![inbox[h].event_id] = @ + 1] ELSE mail
    /\ UNCHANGED <<orderDb, lastCall, relay, broker, env, productDb, paymentDb, authDb,
                   offsets, notifDb, moreVars>>

(* one call of action(): the email goes out or the sender fails *)
DedupAction(h, ok) ==
    /\ inbox[h].pc = "action"
    /\ inbox' = [inbox EXCEPT ![h] = ActionStep(@, ok)]
    /\ mail' = IF ok THEN [mail EXCEPT ![inbox[h].event_id] = @ + 1] ELSE mail
    /\ UNCHANGED <<orderDb, lastCall, relay, broker, env, productDb, paymentDb, authDb,
                   offsets, notifDb, moreVars>>

(* tx.Commit: the row becomes permanent, or the commit fails and the       *)
(* deferred Rollback drops it                                              *)
DedupCommit(h, dbFails) ==
    /\ inbox[h].pc = "commit"
    /\ dbFails => env.dbFaults < MaxDbFaults
    /\ notifDb' = IF dbFails THEN notifDb
                  ELSE [notifDb EXCEPT !.processed_events = Append(@, inbox[h].event_id)]
    /\ inbox' = [inbox EXCEPT ![h] =
           [IdleHandler EXCEPT !.event_id = inbox[h].event_id,
                               !.result = IF dbFails THEN "error" ELSE "done"]]
    /\ env' = [env EXCEPT !.dbFaults = IF dbFails THEN @ + 1 ELSE @]
    /\ UNCHANGED <<orderDb, lastCall, relay, broker, productDb, paymentDb, authDb,
                   offsets, mail, moreVars>>

InboxNext ==
    \/ \E h \in Handlers, id \in EventIds, f \in BOOLEAN : Deliver(h, id, f)
    \/ \E h \in Handlers, f \in BOOLEAN : DedupInsert(h, f)
    \/ \E h \in Handlers, ok \in BOOLEAN : DedupAction(h, ok)
    \/ \E h \in Handlers, f \in BOOLEAN : DedupCommit(h, f)

InboxSpec == InitCommon /\ [][InboxNext]_vars

----------------------------------------------------------------------------
(* One consumer-group session on one partition: pkg/kafka consumer group,  *)
(* ConsumerGroup.Run and saramaHandler.ConsumeClaim.  Messages are numbered *)
(* from 1; log is the number of messages in the partition, pos the next    *)
(* message the claim hands to the handler, marked the highest message      *)
(* passed to MarkMessage, committed the offset stored for the group: a new *)
(* session starts after it.  handled records the messages whose handler    *)
(* returned nil.                                                           *)

(* session.MarkMessage(msg, ""): the mark only moves forward *)
MarkMessage(s, k) == [s EXCEPT !.marked = IF k > @ THEN k ELSE @]

(* a producer appends a message to the partition *)
SessionProduce ==
    /\ session.log < MaxLog
    /\ session' = [session EXCEPT !.log = @ + 1]
    /\ UNCHANGED <<orderDb, lastCall, relay, broker, env, productDb, paymentDb, authDb,
                   offsets, notifDb, inbox, mail, replay, catalogTx, payTx, edgeVars>>

(* one pass of the loop of ConsumeClaim: the handler runs on the next      *)
(* message; it is marked when the handler returned nil, and the loop goes  *)
(* on to the following message either way.                                 *)
SessionConsume(ok) ==
    /\ session.pos <= session.log
    /\ session' = IF ok
                  THEN [MarkMessage(session, session.pos) EXCEPT
                           !.pos = @ + 1, !.handled = @ \cup {session.pos}]
                  ELSE [session EXCEPT !.pos = @ + 1]
    /\ UNCHANGED <<orderDb, lastCall, relay, broker, env, productDb, paymentDb, authDb,
                   offsets, notifDb, inbox, mail, replay, catalogTx, payTx, edgeVars>>

(* the offset manager stores the marked offset (auto-commit) *)
SessionCommit ==
    /\ session.committed # session.marked
    /\ session' = [session EXCEPT !.committed = session.marked]
    /\ UNCHANGED <<orderDb, lastCall, relay, broker, env, productDb, paymentDb, authDb,
                   offsets, notifDb, inbox, mail, replay, catalogTx, payTx, edgeVars>>

(* the session ends (rebalance or restart) and group.Consume is called     *)
(* again by the loop of Run: the claim resumes after the committed offset  *)
SessionRestart ==
    /\ session.pos # session.committed + 1 \/ session.marked # session.committed
    /\ session' = [session EXCEPT !.pos = session.committed + 1,
                                  !.marked = session.committed]
    /\ UNCHANGED <<orderDb, lastCall, relay, broker, env, productDb, paymentDb, authDb,
                   offsets, notifDb, inbox, mail, replay, catalogTx, payTx, edgeVars>>

ConsumerNext ==
    \/ SessionProduce
    \/ \E ok \in BOOLEAN : SessionConsume(ok)
    \/ SessionCommit
    \/ SessionRestart

ConsumerSpec == InitCommon /\ [][ConsumerNext]_vars

----------------------------------------------------------------------------
(* The auth service with its relay, and the keys under which the           *)
(* notification consumer deduplicates what the relay published.            *)

NotifEmails == {"a@x.io", "b@x.io"}

AuthRelayTick ==
    /\ HasUnpublished(authDb.outbox)
    /\ LET r == processBatch(authDb.outbox, broker, env.brokerUp)
       IN  /\ authDb' = [authDb EXCEPT !.outbox = r.outbox]
           /\ broker' = r.broker
    /\ UNCHANGED <<orderDb, lastCall, relay, env, productDb, paymentDb, offsets,
                   notifDb, inbox, mail, moreVars>>

(* notification Consumer.processMessage: the event id handed to            *)
(* ProcessWithDeduplication.  UserRegistered is decoded from               *)
(* wrapper.Payload, UserForgotPassword from msg.Value.                     *)
DedupKey(msg) ==
    CASE msg.event = "UserRegistered"     -> msg.payload.event_id
      [] msg.event = "UserForgotPassword" -> msg.event_id

Deduplicated(msg) == msg.event \in {"UserRegistered", "UserForgotPassword"}

AuthRelayNext ==
    \/ Len(authDb.outbox) < MaxEvents /\
       \E e \in NotifEmails, p \in Passwords, t \in Tokens : CallRegister(e, p, t, 0)
    \/ Len(authDb.outbox) < MaxEvents /\
       \E e \in NotifEmails, t \in Tokens : CallForgotPassword(e, t, 0)
    \/ AuthRelayTick

AuthRelaySpec == InitCommon /\ [][AuthRelayNext]_vars

----------------------------------------------------------------------------
(* Replay of a finite log of saga events to the consumers' handlers.       *)

RECURSIVE Amount(_, _)
Amount(items, k) ==
    IF k > Len(items) THEN 0
    ELSE SeedPrice * items[k].quantity + Amount(items, k + 1)

(* the events of the saga of order o, in the order the services emit them *)
SagaEvents(db, o) ==
    LET row     == db.orders[o]
        created == [event |-> "OrderCreated",
                    payload |-> [order_id |-> o, event_id |-> o,
                                 user_id |-> row.user_id, items |-> row.items]]
        reserved == [event |-> "InventoryReserved",
                     payload |-> [order_id |-> o, user_id |-> row.user_id,
                                  amount |-> Amount(row.items, 1)]]
        outcome == [event |-> PaymentOutcome(o).eventType,
                    payload |-> [order_id |-> o]]
        cancelled == [event |-> "OrderCancelled",
                      payload |-> [order_id |-> o, items |-> row.items]]
    IN  IF PaymentOutcome(o).eventType = "PaymentFailed"
        THEN <<created, reserved, outcome, cancelled>>
        ELSE <<created, reserved, outcome>>

(* the three consumers' processMessage on one message *)
HandleEvent(st, msg) ==
    [order   |-> OrderProcessMessage(st.order, msg).db,
     product |-> ProductProcessMessage(st.product, msg).db,
     payment |-> PaymentProcessMessage(st.payment, msg).db]

ReplayDeliver(o, j) ==
    /\ o <= Len(orderDb.orders)
    /\ j \in DOMAIN SagaEvents(orderDb, o)
    /\ replay[o][j] < MaxDeliveries
    /\ LET st == HandleEvent([order |-> orderDb, product |-> productDb,
                              payment |-> paymentDb], SagaEvents(orderDb, o)[j])
       IN  /\ orderDb' = st.order
           /\ productDb' = st.product
           /\ paymentDb' = st.payment
    /\ replay' = [replay EXCEPT ![o][j] = @ + 1]
    /\ lastCall' = [op |-> "processMessage", order |-> o, err |-> NoErr]
    /\ UNCHANGED <<relay, broker, env, authDb, offsets, notifDb, inbox, mail,
                   session, catalogTx, payTx, edgeVars>>

ReplayNext ==
    \/ \E u \in UserIds, items \in ItemLists : CallCreateOrder(u, items, 0)
    \/ \E o \in OrderIds, j \in 1..4 : ReplayDeliver(o, j)

ReplaySpec == RelayInit /\ [][ReplayNext]_vars

----------------------------------------------------------------------------
(* Concurrent transactions of the catalog service.  An UPDATE locks its    *)
(* row until the transaction ends; a second UPDATE of the row waits for    *)
(* the lock and then sees the committed row.                               *)

(* the products as transaction w sees them: its own pending rows over the  *)
(* committed ones                                                          *)
View(w) ==
    [productDb EXCEPT !.products =
        [p \in DOMAIN @ |-> IF p \in DOMAIN catalogTx.tx[w].rows
                            THEN catalogTx.tx[w].rows[p] ELSE @[p]]]

Locked(id, w) ==
    \E v \in Workers \ {w} : id \in DOMAIN catalogTx.tx[v].rows

(* the statement transaction w runs next on item k *)
Statement(w) ==
    LET t  == catalogTx.tx[w]
        tx == [base |-> productDb, view |-> View(w)]
        it == t.items[t.k]
    IN  IF t.op = "ReturnStock"
        THEN IncreaseStock(tx, it.product_id, it.quantity, FALSE) @@ [price |-> 0]
        ELSE RepoDecreaseStock(tx, it.product_id, it.quantity, FALSE)

(* s.pool.Begin of DecreaseStock, ReserveProduct or ReturnStock *)
CatalogBegin(w, op, order, user, items) ==
    /\ catalogTx.tx[w].pc = "idle"
    /\ catalogTx.started < MaxCatalogOps
    /\ catalogTx' = [tx |-> [catalogTx.tx EXCEPT ![w] =
                                [pc |-> "open", op |-> op, order |-> order,
                                 user |-> user, items |-> items, k |-> 1,
                                 total |-> 0, rows |-> <<>>]],
                     started |-> catalogTx.started + 1]
    /\ UNCHANGED <<orderDb, lastCall, relay, broker, env, productDb, paymentDb,
                   authDb, offsets, notifDb, inbox, mail, session, replay, payTx, edgeVars>>

(* one call of productRepo.DecreaseStock or IncreaseStock inside the       *)
(* transaction.  ReserveProduct and ReturnStock return the error and the   *)
(* deferred Rollback runs; DecreaseStock returns with the transaction      *)
(* still open, whatever the result.                                        *)
CatalogStatement(w) ==
    LET t == catalogTx.tx[w]
    IN  /\ t.pc = "open"
        /\ t.k <= Len(t.items)
        /\ LET id == t.items[t.k].product_id
               r  == Statement(w)
           IN  /\ \/ ~Locked(id, w)
                  \/ r.err = ErrInsufficientStock
               /\ IF r.err # NoErr
                  THEN /\ catalogTx' = [catalogTx EXCEPT ![ "tx" ][w] =
                                          IF t.op = "DecreaseStock"
                                          THEN [t EXCEPT !.pc = "leaked"]
                                          ELSE IdleTx]
                       /\ lastCall' = [op |-> t.op, order |-> t.order, err |-> r.err]
                  ELSE /\ catalogTx' = [catalogTx EXCEPT ![ "tx" ][w] =
                              [t EXCEPT !.k = @ + 1,
                                        !.total = @ + r.price * t.items[t.k].quantity,
                                        !.rows = [p \in DOMAIN t.rows \cup {id} |->
                                                     r.tx.view.products[p]],
                                        !.pc = IF t.op = "DecreaseStock"
                                               THEN "leaked" ELSE "open"]]
                       /\ lastCall' = IF t.op = "DecreaseStock"
                                      THEN [op |-> t.op, order |-> t.order, err |-> NoErr]
                                      ELSE lastCall
        /\ UNCHANGED <<orderDb, relay, broker, env, productDb, paymentDb,
                       authDb, offsets, notifDb, inbox, mail, session, replay, payTx, edgeVars>>

(* the end of ReserveProduct (SaveOutboxEvent, Commit) and of ReturnStock  *)
(* (Commit)                                                                *)
CatalogCommit(w) ==
    LET t == catalogTx.tx[w]
    IN  /\ t.pc = "open"
        /\ t.k > Len(t.items)
        /\ productDb' =
              IF t.op = "ReserveProduct"
              THEN TxCommit(SaveOutboxEvent(
                      [base |-> productDb, view |-> View(w)],
                      [ aggregate_type |-> "Inventory",
                        aggregate_id   |-> ToString(t.order),
                        event_type     |-> "InventoryReserved",
                        payload        |-> [event |-> "InventoryReserved",
                                            payload |-> [order_id |-> t.order,
                                                         user_id  |-> t.user,
                                                         amount   |-> t.total]],
                        topic          |-> "payment_events" ],
                      FALSE).tx)
              ELSE View(w)
        /\ catalogTx' = [catalogTx EXCEPT ![ "tx" ][w] = IdleTx]
        /\ lastCall' = [op |-> t.op, order |-> t.order, err |-> NoErr]
        /\ UNCHANGED <<orderDb, relay, broker, env, paymentDb,
                       authDb, offsets, notifDb, inbox, mail, session, replay, payTx, edgeVars>>

(* the connection of a transaction that DecreaseStock left open is closed: *)
(* the server rolls the transaction back                                   *)
CatalogConnClosed(w) ==
    /\ catalogTx.tx[w].pc = "leaked"
    /\ catalogTx' = [catalogTx EXCEPT ![ "tx" ][w] = IdleTx]
    /\ UNCHANGED <<orderDb, lastCall, relay, broker, env, productDb, paymentDb,
                   authDb, offsets, notifDb, inbox, mail, session, replay, payTx, edgeVars>>

CatalogNext ==
    \/ \E w \in Workers, id \in ProductIds, q \in 1..(SeedStock + 1) :
          CatalogBegin(w, "DecreaseStock", 0, 0, <<[product_id |-> id, quantity |-> q]>>)
    \/ \E w \in Workers, e \in OrderCreatedEvents :
          CatalogBegin(w, "ReserveProduct", e.order_id, e.user_id, e.items)
    \/ \E w \in Workers, e \in OrderCreatedEvents :
          CatalogBegin(w, "ReturnStock", e.order_id, e.user_id, e.items)
    \/ \E w \in Workers : CatalogStatement(w)
    \/ \E w \in Workers : CatalogCommit(w)
    \/ \E w \in Workers : CatalogConnClosed(w)

CatalogSpec == InitCommon /\ [][CatalogNext]_vars

----------------------------------------------------------------------------
(* Concurrent executions of ProcessPayment.  GetOrderByID reads on the     *)
(* pool before the transaction begins; the transaction only inserts.       *)

(* CREATE UNIQUE INDEX idx_payments_order_id_unique ON payments(order_id)  *)
(* WHERE status = 'SUCCEEDED': does the insert of the row violate it       *)
UniqueViolation(db, payment) ==
    /\ payment.status = "SUCCEEDED"
    /\ \E k \in DOMAIN db.payments :
          /\ db.payments[k].order_id = payment.order_id
          /\ db.payments[k].status = "SUCCEEDED"

(* ProcessPayment from s.pool.Begin to tx.Commit *)
PaymentTx(db, event) ==
    LET outcome == PaymentOutcome(event.order_id)
        payment == [order_id |-> event.order_id, user_id |-> event.user_id,
                    amount |-> event.amount, status |-> outcome.status]
    IN  IF UniqueViolation(db, payment)
        THEN [db |-> db, err |-> "error creating payment"]
        ELSE LET r1 == RepoCreatePayment(TxBegin(db), payment, FALSE)
                 r2 == PaymentEmitEvent(r1.tx, outcome.eventType,
                           [order_id |-> event.order_id, amount |-> event.amount],
                           FALSE)
             IN  [db |-> TxCommit(r2.tx), err |-> NoErr]

(* the call of GetOrderByID: an existing payment ends the execution *)
PayCheck(w, event) ==
    /\ payTx.tx[w].pc = "idle"
    /\ payTx.started < MaxPayOps
    /\ IF GetOrderByID(paymentDb, event.order_id)
       THEN /\ payTx' = [payTx EXCEPT !.started = @ + 1]
            /\ lastCall' = [op |-> "ProcessPayment", order |-> event.order_id,
                            err |-> NoErr]
       ELSE /\ payTx' = [tx |-> [payTx.tx EXCEPT ![w] =
                                    [pc |-> "checked", event |-> event]],
                         started |-> payTx.started + 1]
            /\ UNCHANGED lastCall
    /\ UNCHANGED <<orderDb, relay, broker, env, productDb, paymentDb, authDb,
                   offsets, notifDb, inbox, mail, session, replay, catalogTx, edgeVars>>

PayWrite(w) ==
    /\ payTx.tx[w].pc = "checked"
    /\ LET r == PaymentTx(paymentDb, payTx.tx[w].event)
       IN  /\ paymentDb' = r.db
           /\ lastCall' = [op |-> "ProcessPayment",
                           order |-> payTx.tx[w].event.order_id, err |-> r.err]
    /\ payTx' = [payTx EXCEPT ![ "tx" ][w] = [pc |-> "idle", event |-> NULL]]
    /\ UNCHANGED <<orderDb, relay, broker, env, productDb, authDb,
                   offsets, notifDb, inbox, mail, session, replay, catalogTx, edgeVars>>

PayNext ==
    \/ \E w \in Workers, ev \in InventoryReservedEvents : PayCheck(w, ev)
    \/ \E w \in Workers : PayWrite(w)

PaySpec == InitCommon /\ [][PayNext]_vars

----------------------------------------------------------------------------
(* Gateway: services/gateway.  Each handler type owns one breaker          *)
(* (gobreaker.CircuitBreaker) for its downstream service; the routes under *)
(* /api pass the auth and activation middlewares first.                    *)

ErrOpenState == "ErrOpenState"
ErrTooManyRequests == "ErrTooManyRequests"

(* the trip rule the three handlers are built with: with integer counts,   *)
(* float64(TotalFailures) / float64(Requests) >= 0.6 is                    *)
(* 10 * TotalFailures >= 6 * Requests                                      *)
ReadyToTrip_FourRequests(counts) ==
    /\ counts.Requests >= TripRequests - 1
    /\ 10 * counts.TotalFailures >= TripRatioTenths * counts.Requests

ReadyToTrip(counts) ==
    /\ counts.Requests >= TripRequests
    /\ 10 * counts.TotalFailures >= TripRatioTenths * counts.Requests

(* a state change starts a new generation: the counts are cleared *)
SetState(cb, st) ==
    [state |-> st, Requests |-> 0, TotalFailures |-> 0, ConsecutiveSuccesses |-> 0]

(* cb.Execute before the call: an open breaker rejects, a half-open one    *)
(* admits MaxRequests calls, an admitted call is counted                   *)
BeforeRequest(cb) ==
    IF cb.state = "open" THEN [cb |-> cb, err |-> ErrOpenState]
    ELSE IF cb.state = "half-open" /\ cb.Requests >= MaxRequests
    THEN [cb |-> cb, err |-> ErrTooManyRequests]
    ELSE [cb |-> [cb EXCEPT !.Requests = @ + 1], err |-> NoErr]

(* cb.Execute after the call: a failure in the closed state asks           *)
(* ReadyToTrip, a failure in the half-open state opens, MaxRequests        *)
(* successes in a row in the half-open state close                         *)
AfterRequest(cb, success) ==
    IF success
    THEN IF cb.state = "half-open" /\ cb.ConsecutiveSuccesses + 1 >= MaxRequests
         THEN SetState(cb, "closed")
         ELSE [cb EXCEPT !.ConsecutiveSuccesses = @ + 1]
    ELSE IF cb.state = "half-open" THEN SetState(cb, "open")
         ELSE LET counts == [cb EXCEPT !.TotalFailures = @ + 1,
                                       !.ConsecutiveSuccesses = 0]
              IN  IF ReadyToTrip(counts) THEN SetState(cb, "open") ELSE counts

(* utils.ExecuteWithBreaker / cb.Execute around one downstream call whose  *)
(* result is outcome: "OK" or a gRPC status code                           *)
ExecuteWithBreaker(cb, outcome) ==
    LET b == BeforeRequest(cb)
    IN  IF b.err # NoErr THEN [cb |-> cb, err |-> b.err, reached |-> FALSE]
        ELSE [cb      |-> AfterRequest(b.cb, outcome = "OK"),
              err     |-> IF outcome = "OK" THEN NoErr ELSE outcome,
              reached |-> TRUE]

(* utils.GRPCStatusToHTTP; an error that is no gRPC status is 500 *)
GRPCStatusToHTTP(err) ==
    CASE err = "NotFound"         -> 404
      [] err = "InvalidArgument"  -> 400
      [] err = "Unauthenticated"  -> 401
      [] err = "PermissionDenied" -> 403
      [] err = "AlreadyExists"    -> 409
      [] err = "DeadlineExceeded" -> 504
      [] OTHER                    -> 500

PublicRoutes ==
    {"auth/register", "auth/refresh", "auth/login", "auth/reset-password",
     "auth/forgot-password", "auth/activate", "auth/logout"}

ApiRoutes ==
    {"api/me", "api/products:create", "api/products:decrease-stock",
     "api/products:delete", "api/products:find", "api/products:list",
     "api/orders:create"}

Routes == PublicRoutes \cup ApiRoutes

(* the service a route's handler calls, which is also its breaker *)
Target(route) ==
    IF route \in PublicRoutes \cup {"api/me"} THEN "auth"
    ELSE IF route = "api/orders:create" THEN "order"
    ELSE "product"

(* handlers that return 503 when errors.Is(err, gobreaker.ErrOpenState);   *)
(* DecreaseStock and ResetPassword only log it, Login does not test it     *)
ReturnsUnavailable(route) ==
    route \notin {"auth/login", "auth/reset-password", "api/products:decrease-stock"}

(* handlers that reject a request they cannot parse before any call *)
ParsesInput(route) == route # "api/me"

SuccessStatus(route) ==
    IF route \in {"auth/register", "api/products:create", "api/orders:create"}
    THEN 201 ELSE 200

(* a handler on a request: valid says whether its input parses, outcome is *)
(* what the downstream call returns when it is made                        *)
Handler(route, cb, valid, outcome) ==
    IF ParsesInput(route) /\ ~valid
    THEN [cb |-> cb, status |-> 400, err |-> "none", reached |-> FALSE]
    ELSE LET r == ExecuteWithBreaker(cb, outcome)
         IN  [cb      |-> r.cb,
              status  |-> IF r.err = NoErr THEN SuccessStatus(route)
                          ELSE IF r.err = ErrOpenState /\ ReturnsUnavailable(route)
                          THEN 503
                          ELSE GRPCStatusToHTTP(r.err),
              err     |-> r.err,
              reached |-> r.reached]

(* bearer tokens: none, a malformed header, a token the auth service       *)
(* rejects, or the claims of a token it accepts                            *)
BearerTokens ==
    { [kind |-> k, UserID |-> 0, IsActivated |-> FALSE] :
         k \in {"none", "malformed", "invalid"} }
        \cup [kind : {"claims"}, UserID : UserIds, IsActivated : BOOLEAN]

HasClaims(token) == token.kind = "claims"

(* authService.Validate as the gateway sees it *)
ValidateUser(token) ==
    IF HasClaims(token)
    THEN [err |-> NoErr, UserId |-> token.UserID, IsActivated |-> token.IsActivated]
    ELSE [err |-> "Unauthenticated", UserId |-> 0, IsActivated |-> FALSE]

(* NewAuthMiddleware: called says whether ValidateUser was sent *)
AuthMiddleware(token) ==
    IF token.kind \in {"none", "malformed"}
    THEN [next |-> FALSE, status |-> 401, code |-> "", called |-> FALSE,
          userId |-> 0, isActivated |-> FALSE]
    ELSE LET res == ValidateUser(token)
         IN  IF res.err # NoErr
             THEN [next |-> FALSE, status |-> 401, code |-> "", called |-> TRUE,
                   userId |-> 0, isActivated |-> FALSE]
             ELSE [next |-> TRUE, status |-> 0, code |-> "", called |-> TRUE,
                   userId |-> res.UserId, isActivated |-> res.IsActivated]

IsActivatedMiddleware_PassAll(userId, isActivated) ==
    [next |-> TRUE, status |-> 0, code |-> ""]

(* NewIsActivatedMiddleware on the locals the auth middleware stored *)
IsActivatedMiddleware(userId, isActivated) ==
    IF userId = 0 THEN [next |-> FALSE, status |-> 401, code |-> ""]
    ELSE IF ~isActivated
    THEN [next |-> FALSE, status |-> 403, code |-> "EMAIL_NOT_VERIFIED"]
    ELSE [next |-> TRUE, status |-> 0, code |-> ""]

(* the gateway answers one request *)
Serve(g, route, token, valid, outcome) ==
    LET a == IF route \in ApiRoutes THEN AuthMiddleware(token)
             ELSE [next |-> TRUE, status |-> 0, code |-> "", called |-> FALSE,
                   userId |-> 0, isActivated |-> FALSE]
        v == IF route \in ApiRoutes /\ a.next
             THEN IsActivatedMiddleware(a.userId, a.isActivated)
             ELSE [next |-> a.next, status |-> a.status, code |-> a.code]
        h == Handler(route, g.cb[Target(route)], valid, outcome)
        sent == IF a.called THEN {"auth"} ELSE {}
    IN  IF ~v.next
        THEN [g EXCEPT !.served = @ + 1,
                       !.last = [route |-> route, token |-> token,
                                 status |-> v.status, code |-> v.code,
                                 err |-> "none", rpcs |-> sent,
                                 validated |-> a.next, handled |-> FALSE]]
        ELSE [g EXCEPT !.served = @ + 1,
                       !.cb[Target(route)] = h.cb,
                       !.last = [route |-> route, token |-> token,
                                 status |-> h.status, code |-> "",
                                 err |-> h.err,
                                 rpcs |-> sent \cup (IF h.reached THEN {Target(route)}
                                                     ELSE {}),
                                 validated |-> a.next, handled |-> TRUE]]

Outcomes == {"OK", "NotFound", "Unavailable"}

HttpRequest(route, token, valid, outcome) ==
    /\ gateway.served < MaxHttp
    /\ gateway' = Serve(gateway, route, token, valid, outcome)
    /\ UNCHANGED <<orderDb, lastCall, relay, broker, env, productDb, paymentDb,
                   authDb, offsets, notifDb, inbox, mail, session, replay,
                   catalogTx, payTx, cache, reset, logins, feed>>

(* Interval has passed in the closed state: the counts are cleared *)
IntervalExpires(t) ==
    /\ gateway.cb[t].state = "closed"
    /\ gateway.cb[t].Requests > 0
    /\ gateway' = [gateway EXCEPT !.cb[t] = SetState(@, "closed")]
    /\ UNCHANGED <<orderDb, lastCall, relay, broker, env, productDb, paymentDb,
                   authDb, offsets, notifDb, inbox, mail, session, replay,
                   catalogTx, payTx, cache, reset, logins, feed>>

(* Timeout has passed in the open state: the breaker is half-open *)
TimeoutExpires(t) ==
    /\ gateway.cb[t].state = "open"
    /\ gateway' = [gateway EXCEPT !.cb[t] = SetState(@, "half-open")]
    /\ UNCHANGED <<orderDb, lastCall, relay, broker, env, productDb, paymentDb,
                   authDb, offsets, notifDb, inbox, mail, session, replay,
                   catalogTx, payTx, cache, reset, logins, feed>>

(* what a handler can meet: input that does not parse, or input that      *)
(* parses and a call that returns one of the outcomes                      *)
Calls == {<<FALSE, "OK">>} \cup {<<TRUE, o>> : o \in Outcomes}

(* the requests sent to the gateway; the input and the downstream outcome  *)
(* are varied for the tokens of activated users only, the other tokens     *)
(* being answered by the middlewares                                       *)
Activated(token) == token.kind = "claims" /\ token.IsActivated

GatewayNext ==
    \/ \E route \in PublicRoutes, c \in Calls :
          HttpRequest(route, NoToken, c[1], c[2])
    \/ \E route \in ApiRoutes, token \in BearerTokens, c \in Calls :
          /\ Activated(token) \/ c = <<TRUE, "OK">>
          /\ HttpRequest(route, token, c[1], c[2])
    \/ \E t \in Targets : IntervalExpires(t)
    \/ \E t \in Targets : TimeoutExpires(t)

GatewaySpec == InitCommon /\ [][GatewayNext]_vars

----------------------------------------------------------------------------
(* Password reset and login in the auth service *)

MaxResetOps == 4      \* register, forgot-password, reset and login calls

(* base64 of 32 bytes of crypto/rand: a token never issued before *)
ForgotTokens == {"tok1", "tok2"}

(* Tokens a caller may present: issued ones, a guess, the empty string *)
ActivationTokens == {"act1", "act2"}

PresentedTokens == ForgotTokens \cup ActivationTokens \cup {"guess", ""}

ResetPasswords == Passwords \cup {ShortPassword, WeakPassword}

(* SELECT ... FROM users WHERE email = $1 *)
GetByEmail(db, email, dbFails) ==
    LET rows == { k \in DOMAIN db.users : db.users[k].email = email }
    IN  IF dbFails \/ rows = {}
        THEN [err |-> IF dbFails THEN "error getting user" ELSE ErrUserNotFound,
              id |-> 0, user |-> [email |-> email, password_hash |-> NULL]]
        ELSE LET k == CHOOSE k \in rows : TRUE
             IN  [err |-> NoErr, id |-> k, user |-> db.users[k]]

(* authService.Login.  fail: 1 GetByEmail, 2 GenerateTokens, 3 SaveSessionToDB *)
Login(db, sessions, email, password, fail) ==
    LET r == GetByEmail(db, email, fail = 1)
    IN  IF r.err # NoErr
        THEN [sessions |-> sessions, err |-> "invalid credentials"]
        ELSE IF ~CompareHashAndPassword(r.user.password_hash, password)
        THEN [sessions |-> sessions, err |-> "invalid credentials"]
        ELSE IF fail = 2
        THEN [sessions |-> sessions, err |-> "failed to generate tokens"]
        ELSE IF fail = 3
        THEN [sessions |-> sessions, err |-> "failed to save session to db"]
        ELSE [sessions |-> Append(sessions, r.id), err |-> NoErr]

resetFrame ==
    <<orderDb, lastCall, relay, broker, env, productDb, paymentDb, offsets,
      notifDb, inbox, mail, session, replay, catalogTx, payTx, gateway, cache, logins, feed>>

ResetRegister(email, password, token, fail) ==
    /\ reset.ops < MaxResetOps
    /\ token \notin reset.issued
    /\ LET r == Register(authDb, email, password, token, fail)
       IN  /\ authDb' = r.db
           /\ reset' = [reset EXCEPT !.ops = @ + 1,
                           !.issued = @ \cup {token},
                           !.last = [op |-> "Register", email |-> email, token |-> token,
                                     password |-> password, err |-> r.err,
                                     reused |-> FALSE]]
    /\ UNCHANGED resetFrame

ResetForgotPassword(email, token, fail) ==
    /\ reset.ops < MaxResetOps
    /\ token \notin reset.issued
    /\ LET r == ForgotPassword(authDb, email, token, fail)
       IN  /\ authDb' = r.db
           /\ reset' = [reset EXCEPT !.ops = @ + 1,
                           !.issued = @ \cup {token},
                           !.last = [op |-> "ForgotPassword", email |-> email,
                                     token |-> token, password |-> "",
                                     err |-> r.err, reused |-> FALSE]]
    /\ UNCHANGED resetFrame

ResetResetPassword(token, password, fail) ==
    /\ reset.ops < MaxResetOps
    /\ LET r == ResetPassword(authDb, token, password, fail)
       IN  /\ authDb' = r.db
           /\ reset' = [reset EXCEPT !.ops = @ + 1,
                           !.used = IF r.err = NoErr THEN @ \cup {token} ELSE @,
                           !.last = [op |-> "ResetPassword", email |-> "",
                                     token |-> token, password |-> password,
                                     err |-> r.err,
                                     reused |-> token \in reset.used]]
    /\ UNCHANGED resetFrame

ResetVerify(token, fail) ==
    /\ reset.ops < MaxResetOps
    /\ LET r == Verify(authDb, token, fail)
       IN  /\ authDb' = r.db
           /\ reset' = [reset EXCEPT !.ops = @ + 1,
                           !.used = IF r.err = NoErr THEN @ \cup {token} ELSE @,
                           !.last = [op |-> "Verify", email |-> "",
                                     token |-> token, password |-> "",
                                     err |-> r.err,
                                     reused |-> token \in reset.used]]
    /\ UNCHANGED resetFrame

ResetLogin(email, password, fail) ==
    /\ reset.ops < MaxResetOps
    /\ LET r == Login(authDb, reset.sessions, email, password, fail)
       IN  reset' = [reset EXCEPT !.ops = @ + 1,
                        !.sessions = r.sessions,
                        !.last = [op |-> "Login", email |-> email, token |-> "",
                                  password |-> password, err |-> r.err,
                                  reused |-> FALSE]]
    /\ UNCHANGED <<authDb, resetFrame>>

ResetNext ==
    \/ \E e \in NotifEmails, p \in ResetPasswords, t \in ActivationTokens, f \in {0, 2} :
           ResetRegister(e, p, t, f)
    \/ \E t \in PresentedTokens, f \in 0..1 : ResetVerify(t, f)
    \/ \E e \in NotifEmails, t \in ForgotTokens, f \in {0, 4} :
           ResetForgotPassword(e, t, f)
    \/ \E t \in PresentedTokens, p \in ResetPasswords, f \in 0..4 :
           ResetResetPassword(t, p, f)
    \/ \E e \in NotifEmails, p \in Passwords, f \in 0..3 :
           ResetLogin(e, p, f)

ResetSpec == InitCommon /\ [][ResetNext]_vars

----------------------------------------------------------------------------
(* The catalog's read cache: cachedProductService over productService *)

MaxCacheOps == 5      \* calls of the catalog service in one behaviour
cacheTTL == 600       \* seconds: time.Minute * 10

CacheIds == {1, 2}

CacheEvents ==
    [order_id : {1}, user_id : UserIds,
     items : { <<[product_id |-> i, quantity |-> 1]>> : i \in CacheIds }]

(* fmt.Sprintf("product:%d", id) *)
Key(id) == <<"product", id>>

(* redisClient.Get, Set and Del on the keys of one Redis *)
Get(keys, key) ==
    IF \E e \in keys : e.key = key
    THEN [err |-> NoErr, val |-> (CHOOSE e \in keys : e.key = key).val]
    ELSE [err |-> "redis: nil", val |-> <<"", NoProduct>>]

Set(keys, key, val, ttl) ==
    { e \in keys : e.key # key } \cup {[key |-> key, val |-> val, ttl |-> ttl]}

Del(keys, key) == { e \in keys : e.key # key }

(* json.Marshal of a domain.Product cannot fail; json.Unmarshal fails on   *)
(* anything that is not such a document                                    *)
Marshal(product) == [err |-> NoErr, data |-> <<"json", product>>]

Unmarshal(val) ==
    IF val[1] = "json" THEN [err |-> NoErr, product |-> val[2]]
    ELSE [err |-> "invalid character", product |-> NoProduct]

(* productRepo.GetByID: SELECT ... WHERE id = $1 and deleted_at IS NULL *)
GetByID(db, id, dbFails) ==
    IF dbFails THEN [err |-> "error getting product", product |-> NoProduct]
    ELSE IF id \in DOMAIN db.products /\ db.products[id].deleted_at = NULL
    THEN [err |-> NoErr,
          product |-> [id |-> id, price |-> db.products[id].price,
                       stock_quantity |-> db.products[id].stock_quantity]]
    ELSE [err |-> ErrProductNotFound, product |-> NoProduct]

(* productService.FindByID *)
FindByID(db, id, fail) ==
    LET r == GetByID(db, id, fail = 1)
    IN  IF r.err = NoErr \/ r.err = ErrProductNotFound THEN r
        ELSE [err |-> "error getting product by id", product |-> NoProduct]

(* productRepo.DeleteByID: UPDATE products SET deleted_at = NOW()          *)
(* WHERE id = $1 AND deleted_at IS NULL; zero rows is ErrProductNotFound   *)
DeleteByID(db, id, dbFails) ==
    IF dbFails THEN [db |-> db, err |-> "error deleting product by id"]
    ELSE IF id \in DOMAIN db.products /\ db.products[id].deleted_at = NULL
    THEN [db |-> [db EXCEPT !.products[id].deleted_at = "NOW"], err |-> NoErr]
    ELSE [db |-> db, err |-> ErrProductNotFound]

(* productService.Delete *)
Delete(db, id, fail) == DeleteByID(db, id, fail = 1)

(* productService.DecreaseStock: the transaction is begun and the UPDATE   *)
(* runs in it, but it is neither committed nor rolled back; locks says     *)
(* whether the UPDATE left a row lock behind                               *)
DecreaseStock(db, id, quantity, fail) ==
    IF fail = 1 THEN [db |-> db, err |-> "begin failed", res |-> "", locks |-> FALSE]
    ELSE
    LET r == RepoDecreaseStock(TxBegin(db), id, quantity, fail = 2)
    IN  [db |-> r.tx.base, err |-> r.err,
         res |-> IF r.err = NoErr THEN "success" ELSE "",
         locks |-> r.err = NoErr]

(* The decorator as a cache-aside read: a hit is returned, a miss is stored *)
CachedFindByID_CacheAside(keys, db, id, fail) ==
    LET g == Get(keys, Key(id))
    IN  IF g.err = NoErr /\ Unmarshal(g.val).err = NoErr
        THEN [keys |-> keys, err |-> NoErr, product |-> Unmarshal(g.val).product]
        ELSE
        LET r == FindByID(db, id, fail)
        IN  IF r.err # NoErr THEN [keys |-> keys, err |-> r.err, product |-> NoProduct]
            ELSE LET m == Marshal(r.product)
                 IN  [keys |-> IF m.err = NoErr
                               THEN Set(keys, Key(id), m.data, cacheTTL)
                               ELSE keys,
                      err |-> NoErr, product |-> r.product]

(* cachedProductService.FindByID: a cached value is returned only when      *)
(* Unmarshal fails, and Set runs only when Marshal fails                    *)
CachedFindByID(keys, db, id, fail) ==
    LET g == Get(keys, Key(id))
    IN  IF g.err = NoErr /\ Unmarshal(g.val).err # NoErr
        THEN [keys |-> keys, err |-> NoErr, product |-> Unmarshal(g.val).product]
        ELSE
        LET r == FindByID(db, id, fail)
        IN  IF r.err # NoErr THEN [keys |-> keys, err |-> r.err, product |-> NoProduct]
            ELSE LET m == Marshal(r.product)
                 IN  [keys |-> IF m.err # NoErr
                               THEN Set(keys, Key(id), m.data, cacheTTL)
                               ELSE keys,
                      err |-> NoErr, product |-> r.product]

(* cachedProductService.Delete *)
CachedDelete(keys, db, id, fail) ==
    LET r == Delete(db, id, fail)
    IN  IF r.err # NoErr THEN [keys |-> keys, db |-> r.db, err |-> r.err]
        ELSE [keys |-> Del(keys, Key(id)), db |-> r.db, err |-> NoErr]

(* cachedProductService.DecreaseStock *)
CachedDecreaseStock(keys, db, id, quantity, fail) ==
    LET r == DecreaseStock(db, id, quantity, fail)
    IN  IF r.err # NoErr
        THEN [keys |-> keys, db |-> r.db, err |-> r.err, locks |-> r.locks]
        ELSE [keys |-> Del(keys, Key(id)), db |-> r.db, err |-> NoErr, locks |-> r.locks]

ItemIds(event) == { event.items[k].product_id : k \in DOMAIN event.items }

cacheFrame ==
    <<orderDb, lastCall, relay, broker, env, paymentDb, authDb, offsets,
      notifDb, inbox, mail, session, replay, catalogTx, payTx, gateway, reset, logins, feed>>

Called(op, id, fail, err, product) ==
    [op |-> op, id |-> id, fail |-> fail, err |-> err, product |-> product]

(* the gRPC handler calls the decorated service *)
CacheCreate(product, fail) ==
    /\ cache.ops < MaxCacheOps
    /\ LET r == CreateProduct(productDb, product, fail)
       IN  /\ productDb' = r.db
           /\ cache' = [cache EXCEPT !.ops = @ + 1,
                           !.last = Called("Create", r.id, fail, r.err, NoProduct)]
    /\ UNCHANGED cacheFrame

CacheFindByID(id, fail) ==
    /\ cache.ops < MaxCacheOps
    /\ LET r == CachedFindByID(cache.keys, productDb, id, fail)
       IN  cache' = [cache EXCEPT !.ops = @ + 1, !.keys = r.keys,
                        !.last = Called("FindByID", id, fail, r.err, r.product)]
    /\ UNCHANGED <<productDb, cacheFrame>>

CacheDelete(id, fail) ==
    /\ cache.ops < MaxCacheOps
    /\ id \notin cache.locked
    /\ LET r == CachedDelete(cache.keys, productDb, id, fail)
       IN  /\ productDb' = r.db
           /\ cache' = [cache EXCEPT !.ops = @ + 1, !.keys = r.keys,
                           !.mutated = IF r.err = NoErr THEN @ \cup {id} ELSE @,
                           !.last = Called("Delete", id, fail, r.err, NoProduct)]
    /\ UNCHANGED cacheFrame

CacheDecreaseStock(id, quantity, fail) ==
    /\ cache.ops < MaxCacheOps
    /\ id \notin cache.locked
    /\ LET r == CachedDecreaseStock(cache.keys, productDb, id, quantity, fail)
       IN  /\ productDb' = r.db
           /\ cache' = [cache EXCEPT !.ops = @ + 1, !.keys = r.keys,
                           !.locked = IF r.locks THEN @ \cup {id} ELSE @,
                           !.mutated = IF r.err = NoErr THEN @ \cup {id} ELSE @,
                           !.last = Called("DecreaseStock", id, fail, r.err, NoProduct)]
    /\ UNCHANGED cacheFrame

(* the connection of a transaction DecreaseStock left open goes away: the   *)
(* server rolls the transaction back                                        *)
CacheConnClosed(id) ==
    /\ id \in cache.locked
    /\ cache' = [cache EXCEPT !.locked = @ \ {id}]
    /\ UNCHANGED <<productDb, cacheFrame>>

(* the consumer calls the undecorated service *)
ConsumerReserveProduct(event, fail) ==
    /\ cache.ops < MaxCacheOps
    /\ ItemIds(event) \cap cache.locked = {}
    /\ LET r == ReserveProduct(productDb, event, fail)
       IN  /\ productDb' = r.db
           /\ cache' = [cache EXCEPT !.ops = @ + 1,
                           !.mutated = IF r.err = NoErr THEN @ \cup ItemIds(event) ELSE @,
                           !.last = Called("ReserveProduct", 0, fail, r.err, NoProduct)]
    /\ UNCHANGED cacheFrame

ConsumerReturnStock(event, fail) ==
    /\ cache.ops < MaxCacheOps
    /\ ItemIds(event) \cap cache.locked = {}
    /\ LET r == ReturnStock(productDb, event, fail)
       IN  /\ productDb' = r.db
           /\ cache' = [cache EXCEPT !.ops = @ + 1,
                           !.mutated = IF r.err = NoErr THEN @ \cup ItemIds(event) ELSE @,
                           !.last = Called("ReturnStock", 0, fail, r.err, NoProduct)]
    /\ UNCHANGED cacheFrame

CacheNext ==
    \/ \E pr \in NewProducts, f \in {0, 2} : CacheCreate(pr, f)
    \/ \E id \in CacheIds, f \in 0..1 : CacheFindByID(id, f)
    \/ \E id \in CacheIds, f \in 0..1 : CacheDelete(id, f)
    \/ \E id \in CacheIds, q \in 1..SeedStock, f \in 0..2 : CacheDecreaseStock(id, q, f)
    \/ \E id \in CacheIds : CacheConnClosed(id)
    \/ \E ev \in CacheEvents, f \in {0, 2, 4} : ConsumerReserveProduct(ev, f)
    \/ \E ev \in CacheEvents, f \in {0, 3} : ConsumerReturnStock(ev, f)

CacheSpec == InitCommon /\ [][CacheNext]_vars

----------------------------------------------------------------------------
(* Refresh sessions of the auth service *)

(* the clock runs until a session of the first tick has expired *)
MaxClock == SessionTicks + 1

ErrSessionNotFound == "ErrSessionNotFound"

(* utils.GenerateTokens: the refresh token, a JWT with the user id, an     *)
(* expiry 30 days ahead and a fresh uuid as its id                         *)
GenerateTokens(userID, now, jti) ==
    [kind |-> "jwt", user_id |-> userID, exp |-> now + SessionTicks, jti |-> jti]

(* utils.ValidateToken: jwt.ParseWithClaims checks the signature and that  *)
(* the time is before the expiry of the token                              *)
ValidateToken(token, now) ==
    IF token.kind = "jwt" /\ now < token.exp THEN NoErr ELSE "invalid token"

(* INSERT INTO refresh_sessions (user_id, token, expires_at) RETURNING id *)
SaveSessionToDB(st, userID, token, expiresAt) ==
    [st EXCEPT !.sessions = @ \cup {[id |-> st.nextId, user_id |-> userID,
                                     token |-> token, expires_at |-> expiresAt]},
               !.nextId = @ + 1]

(* SELECT ... FROM refresh_sessions WHERE token = $1 *)
FindSessionByToken(sessions, token, dbFails) ==
    LET rows == { r \in sessions : r.token = token }
    IN  IF dbFails THEN [err |-> "error getting session", session |-> NoSession]
        ELSE IF rows = {} THEN [err |-> ErrSessionNotFound, session |-> NoSession]
        ELSE [err |-> NoErr,
              session |-> CHOOSE r \in rows : \A q \in rows : r.id <= q.id]

(* DELETE FROM refresh_sessions WHERE token = $1; zero rows affected is    *)
(* ErrSessionNotFound                                                      *)
DeleteSessionByToken(sessions, token, dbFails) ==
    IF dbFails THEN [sessions |-> sessions, err |-> "error deleting session"]
    ELSE IF \A r \in sessions : r.token # token
    THEN [sessions |-> sessions, err |-> ErrSessionNotFound]
    ELSE [sessions |-> { r \in sessions : r.token # token }, err |-> NoErr]

(* The delete by id without its test of the rows affected *)
DeleteSessionByID_AnyCount(sessions, id, dbFails) ==
    IF dbFails THEN [sessions |-> sessions, err |-> "error deleting session"]
    ELSE [sessions |-> { r \in sessions : r.id # id }, err |-> NoErr]

(* DELETE FROM refresh_sessions WHERE id = $1; zero rows affected is       *)
(* ErrSessionNotFound                                                      *)
DeleteSessionByID(sessions, id, dbFails) ==
    IF dbFails THEN [sessions |-> sessions, err |-> "error deleting session"]
    ELSE IF \A r \in sessions : r.id # id
    THEN [sessions |-> sessions, err |-> ErrSessionNotFound]
    ELSE [sessions |-> { r \in sessions : r.id # id }, err |-> NoErr]

(* Logout that deletes every session of the token's user *)
Logout_AllOfUser(sessions, token, fail) ==
    LET r == DeleteSessionByToken(sessions, token, fail = 1)
    IN  IF r.err # NoErr
        THEN [sessions |-> sessions, err |-> "error deleting session", cause |-> r.err]
        ELSE [sessions |-> { q \in sessions : q.user_id # token.user_id },
              err |-> NoErr, cause |-> NoErr]

(* authService.Logout; the error wraps (%w) the one of the repository,     *)
(* kept in cause                                                           *)
Logout(sessions, token, fail) ==
    LET r == DeleteSessionByToken(sessions, token, fail = 1)
    IN  IF r.err # NoErr
        THEN [sessions |-> sessions, err |-> "error deleting session", cause |-> r.err]
        ELSE [sessions |-> r.sessions, err |-> NoErr, cause |-> NoErr]

(* SELECT ... FROM users WHERE id = $1 *)
FindUserByID(db, id, dbFails) ==
    IF dbFails THEN "error finding user"
    ELSE IF id \in DOMAIN db.users THEN NoErr ELSE ErrUserNotFound

(* tokens a client may present: those generated so far, and a string that  *)
(* is no JWT                                                               *)
Garbage == [kind |-> "garbage", user_id |-> 0, exp |-> 0, jti |-> 0]

Presented == logins.tokens \cup {Garbage}

loginsFrame ==
    <<orderDb, lastCall, relay, broker, env, productDb, paymentDb, offsets,
      notifDb, inbox, mail, session, replay, catalogTx, payTx, gateway, cache,
      reset, feed>>

Returned(op, w, token, err, cause, issued) ==
    [op |-> op, w |-> w, token |-> token, err |-> err, cause |-> cause,
     issued |-> issued, at |-> ""]

LoginsRegister(email, password) ==
    /\ logins.ops < MaxLoginOps
    /\ LET r == Register(authDb, email, password, "act", 0)
       IN  /\ authDb' = r.db
           /\ logins' = [logins EXCEPT !.ops = @ + 1,
                            !.last = Returned("Register", 0, NoJwt, r.err, NoErr, NoJwt)]
    /\ UNCHANGED loginsFrame

(* authService.Login: the credentials are checked, then the tokens are     *)
(* generated and the session is saved                                      *)
LoginsLogin(email, password, fail) ==
    /\ logins.ops < MaxLoginOps
    /\ LET r == Login(authDb, <<>>, email, password, fail)
           token == GenerateTokens(r.sessions[1], logins.now, logins.jti + 1)
       IN  logins' =
             IF r.err # NoErr
             THEN [logins EXCEPT !.ops = @ + 1,
                      !.last = Returned("Login", 0, NoJwt, r.err, NoErr, NoJwt)]
             ELSE [SaveSessionToDB(logins, r.sessions[1], token,
                                   logins.now + SessionTicks)
                      EXCEPT !.ops = @ + 1, !.jti = @ + 1,
                             !.tokens = @ \cup {token},
                             !.last = Returned("Login", 0, NoJwt, NoErr, NoErr, token)]
    /\ UNCHANGED <<authDb, loginsFrame>>

LoginsLogout(token, fail) ==
    /\ logins.ops < MaxLoginOps
    /\ LET r == Logout(logins.sessions, token, fail)
       IN  logins' = [logins EXCEPT !.ops = @ + 1, !.sessions = r.sessions,
                         !.last = Returned("Logout", 0, token, r.err, r.cause, NoJwt)]
    /\ UNCHANGED <<authDb, loginsFrame>>

(* authService.Refresh up to FindSessionByToken *)
RefreshFind(w, token, fail) ==
    /\ logins.ops < MaxLoginOps
    /\ logins.refresh[w].pc = "idle"
    /\ LET v == ValidateToken(token, logins.now)
           f == FindSessionByToken(logins.sessions, token, fail = 1)
       IN  logins' =
             IF v # NoErr
             THEN [logins EXCEPT !.ops = @ + 1,
                      !.last = Returned("Refresh", w, token,
                                        "error validating token", v, NoJwt)]
             ELSE IF f.err # NoErr
             THEN [logins EXCEPT !.ops = @ + 1,
                      !.last = Returned("Refresh", w, token, f.err, f.err, NoJwt)]
             ELSE [logins EXCEPT !.ops = @ + 1,
                      !.refresh[w] = [pc |-> "found", token |-> token,
                                      session |-> f.session]]
    /\ UNCHANGED <<authDb, loginsFrame>>

(* authService.Refresh: DeleteSessionByID, in the branch of an expired     *)
(* session or in the other one                                             *)
RefreshDelete(w, fail) ==
    /\ logins.refresh[w].pc = "found"
    /\ LET run == logins.refresh[w]
           expired == run.session.expires_at < logins.now
           d == DeleteSessionByID(logins.sessions, run.session.id, fail = 1)
       IN  logins' =
             IF d.err # NoErr
             THEN [logins EXCEPT !.refresh[w] = IdleRefresh,
                      !.last = [Returned("Refresh", w, run.token, d.err, d.err, NoJwt)
                                   EXCEPT !.at = "DeleteSessionByID"]]
             ELSE IF expired
             THEN [logins EXCEPT !.sessions = d.sessions,
                      !.refresh[w] = IdleRefresh,
                      !.last = Returned("Refresh", w, run.token, "token expired",
                                        NoErr, NoJwt)]
             ELSE [logins EXCEPT !.sessions = d.sessions,
                      !.refresh[w].pc = "deleted"]
    /\ UNCHANGED <<authDb, loginsFrame>>

(* authService.Refresh: FindUserByID, GenerateTokens, SaveSessionToDB.     *)
(* fail: 1 FindUserByID, 2 SaveSessionToDB                                 *)
RefreshIssue(w, fail) ==
    /\ logins.refresh[w].pc = "deleted"
    /\ LET run == logins.refresh[w]
           u == FindUserByID(authDb, run.session.user_id, fail = 1)
           token == GenerateTokens(run.session.user_id, logins.now, logins.jti + 1)
       IN  logins' =
             IF u # NoErr
             THEN [logins EXCEPT !.refresh[w] = IdleRefresh,
                      !.last = Returned("Refresh", w, run.token, u, u, NoJwt)]
             ELSE IF fail = 2
             THEN [logins EXCEPT !.jti = @ + 1, !.refresh[w] = IdleRefresh,
                      !.last = Returned("Refresh", w, run.token,
                                        "error saving session to db", NoErr, NoJwt)]
             ELSE [SaveSessionToDB(logins, run.session.user_id, token,
                                   logins.now + SessionTicks)
                      EXCEPT !.jti = @ + 1, !.refresh[w] = IdleRefresh,
                             !.tokens = @ \cup {token},
                             !.granted = @ \cup {[old |-> run.token, new |-> token]},
                             !.last = Returned("Refresh", w, run.token, NoErr,
                                               NoErr, token)]
    /\ UNCHANGED <<authDb, loginsFrame>>

(* time passes *)
ClockTick ==
    /\ logins.now < MaxClock
    /\ logins' = [logins EXCEPT !.now = @ + 1]
    /\ UNCHANGED <<authDb, loginsFrame>>

LoginsNext ==
    \/ \E e \in NotifEmails : LoginsRegister(e, "pw1")
    \/ \E e \in NotifEmails, p \in Passwords, f \in {0, 3} : LoginsLogin(e, p, f)
    \/ \E t \in Presented, f \in 0..1 : LoginsLogout(t, f)
    \/ \E w \in Workers, t \in Presented, f \in 0..1 : RefreshFind(w, t, f)
    \/ \E w \in Workers, f \in 0..1 : RefreshDelete(w, f)
    \/ \E w \in Workers, f \in 0..2 : RefreshIssue(w, f)
    \/ ClockTick

LoginsSpec == InitCommon /\ [][LoginsNext]_vars

----------------------------------------------------------------------------
(* The outbox under overlapping CreateOrder transactions.  created_at is   *)
(* DEFAULT NOW(), the start time of the inserting transaction; the id is   *)
(* drawn from the sequence when the INSERT runs.                           *)

feedFrame ==
    <<orderDb, lastCall, relay, broker, env, productDb, paymentDb, authDb, offsets,
      notifDb, inbox, mail, session, replay, catalogTx, payTx, gateway, cache,
      reset, logins>>

(* s.pool.Begin of CreateOrder: the transaction's NOW() is fixed here *)
FeedBegin(w) ==
    /\ feed.tx[w].pc = "idle"
    /\ feed.begun < MaxFeedTx
    /\ feed' = [feed EXCEPT !.tx[w] = [pc |-> "begun", started |-> feed.now, id |-> 0],
                            !.now = @ + 1,
                            !.begun = @ + 1]
    /\ UNCHANGED feedFrame

(* SaveOutboxEvent: INSERT INTO outbox (...) without created_at *)
FeedSaveOutboxEvent(w) ==
    /\ feed.tx[w].pc = "begun"
    /\ feed' = [feed EXCEPT !.tx[w].pc = "inserted",
                            !.tx[w].id = feed.nextId,
                            !.nextId = @ + 1]
    /\ UNCHANGED feedFrame

(* tx.Commit: the row becomes visible to the relay *)
FeedCommit(w) ==
    /\ feed.tx[w].pc = "inserted"
    /\ feed' = [feed EXCEPT
                  !.tx[w] = IdleInsert,
                  !.outbox = @ \cup {[id |-> feed.tx[w].id,
                                      created_at |-> feed.tx[w].started,
                                      published_at |-> NULL,
                                      attempts |-> 0]}]
    /\ UNCHANGED feedFrame

(* ORDER BY created_at ASC over a set of rows *)
RECURSIVE OrderByCreatedAt(_)
OrderByCreatedAt(rows) ==
    IF rows = {} THEN <<>>
    ELSE LET first == CHOOSE r \in rows :
                          \A q \in rows : r.created_at <= q.created_at
         IN  <<first>> \o OrderByCreatedAt(rows \ {first})

(* one tick of processBatch with the broker reachable: the selected rows   *)
(* are produced in the order of the query's result and marked published    *)
FeedTick ==
    LET batch == TakeUpTo(OrderByCreatedAt({ r \in feed.outbox : Selectable(r) }),
                          batchSize)
    IN  /\ batch # <<>>
        /\ feed' = [feed EXCEPT
                      !.sent = [k \in 1..Len(batch) |-> batch[k].id],
                      !.outbox = { IF Selectable(r)
                                   THEN [r EXCEPT !.published_at = "NOW"] ELSE r :
                                   r \in @ }]
        /\ UNCHANGED feedFrame

FeedNext ==
    \/ \E w \in Workers : FeedBegin(w)
    \/ \E w \in Workers : FeedSaveOutboxEvent(w)
    \/ \E w \in Workers : FeedCommit(w)
    \/ FeedTick

FeedSpec == InitCommon /\ [][FeedNext]_vars

----------------------------------------------------------------------------
(* Properties of the order-service handlers *)

LegalTransitions == { <<"new", "paid">>, <<"new", "cancelled">>, <<"paid", "shipped">> }

StatusOf(db, o) == db.orders[o].status

(* C1: under any sequence of PaymentSucceeded and PaymentFailed deliveries *)
(* an order's status changes only along new->paid, new->cancelled or       *)
(* paid->shipped; never paid->cancelled and never out of cancelled.        *)
C1_OnlyLegalTransitions ==
    [][\A o \in DOMAIN orderDb.orders :
          \/ StatusOf(orderDb', o) = StatusOf(orderDb, o)
          \/ <<StatusOf(orderDb, o), StatusOf(orderDb', o)>> \in LegalTransitions]_vars

(* C2: CancelOrder for a paid order returns an error, leaves the status    *)
(* paid and appends no OrderCancelled event to the outbox.                 *)
C2_CancelPaidRejected ==
    [][\A o \in DOMAIN orderDb.orders, f \in 0..5 :
          (StatusOf(orderDb, o) = "paid" /\ CallCancelOrder(o, f))
              => /\ lastCall'.err # NoErr
                 /\ StatusOf(orderDb', o) = "paid"
                 /\ orderDb'.outbox = orderDb.outbox]_vars

(* C3: a second PaymentFailed for an already cancelled order returns no    *)
(* error and changes nothing: the status stays cancelled and no further    *)
(* OrderCancelled outbox row is written.                                   *)
C3_CancelIdempotent ==
    [][\A o \in DOMAIN orderDb.orders :
          (StatusOf(orderDb, o) = "cancelled" /\ CallCancelOrder(o, 0))
              => /\ lastCall'.err = NoErr
                 /\ StatusOf(orderDb', o) = "cancelled"
                 /\ orderDb'.outbox = orderDb.outbox]_vars

----------------------------------------------------------------------------
(* Properties of the saga *)

(* the order consumer has been handed a PaymentFailed of order o *)
PaymentFailedDelivered(o) ==
    \E k \in 1..offsets[OrderGroup]["payment_events"] :
        LET msg == broker["payment_events"][k]
        IN  msg.event = "PaymentFailed" /\ msg.payload.order_id = o

(* the catalog committed the reservation of order o *)
Reserved(o) ==
    \E k \in DOMAIN productDb.outbox :
        /\ productDb.outbox[k].event_type = "InventoryReserved"
        /\ productDb.outbox[k].payload.payload.order_id = o

PaymentFailedFor(o) ==
    \E k \in DOMAIN paymentDb.payments :
        paymentDb.payments[k].order_id = o /\ paymentDb.payments[k].status = "FAIL"

(* units of product p in the item list, from item k on *)
RECURSIVE ItemQty(_, _, _)
ItemQty(items, p, k) ==
    IF k > Len(items) THEN 0
    ELSE (IF items[k].product_id = p THEN items[k].quantity ELSE 0) + ItemQty(items, p, k + 1)

(* units of product p held by the reservations of the orders from o2 on    *)
(* that are not o and whose payment did not fail                           *)
RECURSIVE HeldByOthers(_, _, _)
HeldByOthers(o, p, o2) ==
    IF o2 > Len(orderDb.orders) THEN 0
    ELSE (IF o2 # o /\ Reserved(o2) /\ ~PaymentFailedFor(o2)
          THEN ItemQty(orderDb.orders[o2].items, p, 1) ELSE 0)
         + HeldByOthers(o, p, o2 + 1)

(* order o is cancelled and its reservation is undone: every product has   *)
(* its initial stock less what the other orders hold                       *)
Compensated(o) ==
    /\ o \in DOMAIN orderDb.orders
    /\ StatusOf(orderDb, o) = "cancelled"
    /\ \A p \in DOMAIN productDb.products :
          productDb.products[p].stock_quantity =
              InitProductDb.products[p].stock_quantity - HeldByOthers(o, p, 1)

(* C4: for every PaymentFailed delivered to Order for an order whose stock *)
(* had been reserved, eventually the order is cancelled and the stock of   *)
(* each ordered product is back at its value before the reservation.       *)
C4_CompensationCompletes ==
    \A o \in OrderIds :
        (PaymentFailedDelivered(o) /\ Reserved(o)) ~> Compensated(o)

----------------------------------------------------------------------------
(* Atomicity of the aggregate change and its outbox row *)

(* db2 is db with exactly one more outbox row, an event named ev *)
RowAdded(db, db2, ev) ==
    /\ Len(db2.outbox) = Len(db.outbox) + 1
    /\ SubSeq(db2.outbox, 1, Len(db.outbox)) = db.outbox
    /\ db2.outbox[Len(db2.outbox)].payload.event = ev

(* an operation that went from db to db2 and returned err committed its    *)
(* change together with its row, or committed nothing and said so          *)
Together(db, db2, err, changed, ev) ==
    /\ err # NoErr => db2 = db
    /\ err = NoErr => changed /\ RowAdded(db, db2, ev)

StockLess(db, db2, items) ==
    \A p \in DOMAIN db.products :
        db2.products[p].stock_quantity =
            db.products[p].stock_quantity - ItemQty(items, p, 1)

(* C6: in every operation that emits an event the aggregate change and its *)
(* outbox row are committed together or not at all, whichever step fails.  *)
(* (lastCall'.op names the operation of the step, so each step is compared *)
(* with the calls of that operation only.)                                 *)
C6_ChangeAndRowTogether ==
    [][/\ lastCall'.op = "Register" =>
         \A e \in Emails, p \in Passwords, t \in Tokens, f \in 0..4 :
            CallRegister(e, p, t, f) =>
                Together(authDb, authDb', lastCall'.err,
                    /\ Len(authDb'.users) = Len(authDb.users) + 1
                    /\ authDb'.users[Len(authDb'.users)].email = e,
                    "UserRegistered")
       /\ lastCall'.op = "ForgotPassword" =>
         \A e \in Emails, t \in Tokens, f \in 0..4 :
            CallForgotPassword(e, t, f) =>
                Together(authDb, authDb', lastCall'.err,
                    \E k \in DOMAIN authDb'.users :
                        /\ authDb'.users[k].email = e
                        /\ authDb'.users[k].forgot_password_token = t,
                    "UserForgotPassword")
       /\ lastCall'.op = "ResetPassword" =>
         \A t \in Tokens, p \in Passwords, f \in 0..4 :
            CallResetPassword(t, p, f) =>
                Together(authDb, authDb', lastCall'.err,
                    \E k \in DOMAIN authDb.users :
                        /\ authDb.users[k].forgot_password_token = t
                        /\ authDb'.users[k].password_hash = Hash(p)
                        /\ authDb'.users[k].forgot_password_token = "",
                    "UserResetPassword")
       /\ lastCall'.op = "CreateOrder" =>
         \A u \in UserIds, items \in ItemLists, f \in 0..4 :
            CallCreateOrder(u, items, f) =>
                Together(orderDb, orderDb', lastCall'.err,
                    /\ Len(orderDb'.orders) = Len(orderDb.orders) + 1
                    /\ lastCall'.order = Len(orderDb'.orders),
                    "OrderCreated")
       /\ lastCall'.op = "CancelOrder" =>
         \A o \in OrderIds, f \in 0..5 :
            CallCancelOrder(o, f) =>
                Together(orderDb, orderDb', lastCall'.err,
                    o \in DOMAIN orderDb'.orders /\ StatusOf(orderDb', o) = "cancelled",
                    "OrderCancelled")
       /\ lastCall'.op = "ReserveProduct" =>
         \A ev \in OrderCreatedEvents, f \in 0..4 :
            CallReserveProduct(ev, f) =>
                Together(productDb, productDb', lastCall'.err,
                    StockLess(productDb, productDb', ev.items),
                    "InventoryReserved")
       /\ lastCall'.op = "ProcessPayment" =>
         \A ev \in InventoryReservedEvents, f \in 0..5 :
            CallProcessPayment(ev, f) =>
                IF GetOrderByID(paymentDb, ev.order_id) /\ f # 1
                THEN paymentDb' = paymentDb
                ELSE Together(paymentDb, paymentDb', lastCall'.err,
                         /\ Len(paymentDb'.payments) = Len(paymentDb.payments) + 1
                         /\ paymentDb'.payments[Len(paymentDb'.payments)].order_id = ev.order_id,
                         PaymentOutcome(ev.order_id).eventType)
       /\ lastCall'.op = "Create" =>
         \A pr \in NewProducts, f \in 0..4 :
            CallCreateProduct(pr, f) =>
                Together(productDb, productDb', lastCall'.err,
                    Len(productDb'.products) = Len(productDb.products) + 1,
                    "ProductCreated")]_vars

(* two operations have committed and a third one failed at its commit *)
C6_Witness ==
    /\ lastCall.op = "ReserveProduct"
    /\ lastCall.err = "failed to commit"
    /\ TotalOutbox >= 2

----------------------------------------------------------------------------
(* Properties of the inbox *)

(* committed processed_events rows of the id *)
ProcessedCount(id) ==
    Cardinality({ k \in DOMAIN notifDb.processed_events :
                     notifDb.processed_events[k] = id })

(* C10: under arbitrary redelivery the processed_events row of an event id *)
(* is committed at most once, and only after the side effect of that id    *)
(* has run successfully.                                                   *)
C10_RowOnceAfterEffect ==
    \A id \in EventIds :
        /\ ProcessedCount(id) <= 1
        /\ ProcessedCount(id) >= 1 => mail[id] >= 1

(* an id was processed, delivered again and skipped, while another         *)
(* delivery of it failed at commit after its side effect had run           *)
C10_Witness ==
    \E id \in EventIds, h \in Handlers :
        /\ ProcessedCount(id) = 1
        /\ inbox[h].result = "skipped"
        /\ inbox[h].event_id = id
        /\ mail[id] >= 2

----------------------------------------------------------------------------
(* Properties of the outbox relay *)

Outbox == orderDb.outbox

Published(id) == id \in DOMAIN Outbox /\ Outbox[id].published_at # NULL

Dead(id) == id \in DOMAIN Outbox /\ Outbox[id].attempts >= MAX_ATTEMPTS

(* how many messages of the broker carry the event id of outbox row id *)
SentCount(b, id) ==
    Cardinality({ tk \in UNION { {<<t, k>> : k \in 1..Len(b[t])} : t \in Topics } :
                    b[tk[1]][tk[2]].event_id = id })

BatchOf(r) == { r.batch[k] : k \in 1..Len(r.batch) }

NoFaults == env.outages = 0 /\ env.dbFaults = 0

(* C5: a row has a published time only after the broker acknowledged the   *)
(* publish of that row: every committed row marked published has been      *)
(* produced successfully at least once.                                    *)
C5_PublishedOnlyAfterAck ==
    \A id \in DOMAIN Outbox : Published(id) => SentCount(broker, id) >= 1

C5_Witness ==
    \E id \in DOMAIN Outbox : Published(id) /\ env.outages > 0

C8_AttemptsMonotoneDeadLetter ==
    [][\A id \in DOMAIN Outbox :
          /\ orderDb'.outbox[id].attempts >= Outbox[id].attempts
          /\ Dead(id) =>
                /\ \A i \in Relays : id \notin BatchOf(relay'[i])
                /\ SentCount(broker', id) = SentCount(broker, id)
                /\ orderDb'.outbox[id] = Outbox[id]]_vars

C8_Witness ==
    \E id \in DOMAIN Outbox, i \in Relays :
        /\ Dead(id)
        /\ env.brokerUp
        /\ relay[i].pc = "publish"
        /\ relay[i].pos > 1

(* C9: two relay instances never hold the same row in their batches at the *)
(* same time, and without publish or commit failures every event is sent   *)
(* to the broker at most once, exactly once when it is marked published.   *)
C9_DisjointBatchesSentOnce ==
    /\ \A i \in Relays, j \in Relays :
          i # j => BatchOf(relay[i]) \cap BatchOf(relay[j]) = {}
    /\ NoFaults =>
          \A id \in DOMAIN Outbox :
              /\ SentCount(broker, id) <= 1
              /\ Published(id) => SentCount(broker, id) = 1

C9_Witness ==
    /\ NoFaults
    /\ \A i \in Relays : relay[i].pc = "publish" /\ relay[i].pos > 1

----------------------------------------------------------------------------
(* C11: a delivery whose event id already has a committed processed_events *)
(* row returns nil to the consumer loop (result "skipped"), does not       *)
(* invoke the side effect and changes no stored state.                     *)
C11_DuplicateSkipped ==
    [][\A h \in Handlers :
          (inbox[h].pc = "insert" /\ ProcessedCount(inbox[h].event_id) >= 1)
              => /\ DedupInsert(h, FALSE) => inbox'[h].result = "skipped"
                 /\ inbox'[h] # inbox[h] =>
                       /\ inbox'[h].pc = "idle"
                       /\ mail' = mail
                       /\ notifDb' = notifDb]_vars

(* a redelivered event was skipped after exactly one side effect *)
C11_Witness ==
    \E h \in Handlers :
        /\ inbox[h].result = "skipped"
        /\ mail[inbox[h].event_id] = 1
        /\ ProcessedCount(inbox[h].event_id) = 1

----------------------------------------------------------------------------
(* Properties of the consumer session *)

(* C12: the offset of a message whose handler returned an error is never   *)
(* committed, neither directly nor through the acknowledgement of a later  *)
(* message, until one of its deliveries has been handled successfully.     *)
C12_FailedNotCommitted ==
    \A k \in 1..session.log : k <= session.committed => k \in session.handled

----------------------------------------------------------------------------
(* Properties of the event ids *)

UserEvents == broker["user_events"]

(* C13: every published message carries the id of its outbox row as        *)
(* event_id, that value is the key the deduplicating notification handlers *)
(* use, and two different outbox events never have the same key.           *)
C13_EventIdIsDedupKey ==
    /\ \A k \in DOMAIN UserEvents :
          Deduplicated(UserEvents[k]) => DedupKey(UserEvents[k]) = UserEvents[k].event_id
    /\ \A j \in DOMAIN UserEvents, k \in DOMAIN UserEvents :
          (/\ Deduplicated(UserEvents[j]) /\ Deduplicated(UserEvents[k])
           /\ UserEvents[j].event_id # UserEvents[k].event_id)
              => DedupKey(UserEvents[j]) # DedupKey(UserEvents[k])

----------------------------------------------------------------------------
(* Properties of replayed saga logs *)

(* the whole log: the events of order 1, then of order 2, ... *)
RECURSIVE SagaLog(_, _)
SagaLog(db, o) ==
    IF o > Len(db.orders) THEN <<>>
    ELSE SagaEvents(db, o) \o SagaLog(db, o + 1)

RECURSIVE ApplyLog(_, _, _)
ApplyLog(st, log, k) ==
    IF k > Len(log) THEN st
    ELSE ApplyLog(HandleEvent(st, log[k]), log, k + 1)

(* each event delivered exactly once, in order, to the state in which the  *)
(* orders have just been created                                           *)
Baseline ==
    ApplyLog([order   |-> [orderDb EXCEPT !.orders =
                              [o \in DOMAIN @ |-> [@[o] EXCEPT !.status = "new"]]],
              product |-> InitProductDb,
              payment |-> InitPaymentDb],
             SagaLog(orderDb, 1), 1)

AllDelivered ==
    \A o \in 1..Len(orderDb.orders) :
        \A j \in DOMAIN SagaEvents(orderDb, o) : replay[o][j] >= 1

(* C14: once every event of the log has been delivered, in whatever order  *)
(* and however often, the order statuses and the product stock are those   *)
(* of the in-order single-delivery baseline.                               *)
C14_ReplayEqualsBaseline ==
    (Len(orderDb.orders) >= 1 /\ AllDelivered)
        => /\ \A o \in DOMAIN orderDb.orders :
                 orderDb.orders[o].status = Baseline.order.orders[o].status
           /\ \A p \in DOMAIN productDb.products :
                 productDb.products[p].stock_quantity
                     = Baseline.product.products[p].stock_quantity

----------------------------------------------------------------------------
(* Properties of the catalog's stock *)

StockNonNegative ==
    /\ \A p \in DOMAIN productDb.products : productDb.products[p].stock_quantity >= 0
    /\ \A w \in Workers : \A p \in DOMAIN View(w).products :
          View(w).products[p].stock_quantity >= 0

(* transaction w is about to decrement a product by more than the stock   *)
(* it sees                                                                 *)
Overdrawing(w) ==
    LET t == catalogTx.tx[w]
    IN  /\ t.pc = "open" /\ t.k <= Len(t.items)
        /\ t.op \in {"DecreaseStock", "ReserveProduct"}
        /\ t.items[t.k].quantity > View(w).products[t.items[t.k].product_id].stock_quantity

(* C15: under any interleaving of DecreaseStock, ReserveProduct and        *)
(* ReturnStock transactions every product's stock, committed or pending,   *)
(* is at least 0, and a decrement larger than the current stock fails with *)
(* ErrInsufficientStock and changes no stock.                              *)
C15_StockNeverNegative ==
    [][/\ StockNonNegative'
       /\ \A w \in Workers :
             (Overdrawing(w) /\ catalogTx'.tx[w] # catalogTx.tx[w])
                 => /\ lastCall'.err = ErrInsufficientStock
                    /\ productDb' = productDb
                    /\ catalogTx'.tx[w].rows \in {<<>>, catalogTx.tx[w].rows}]_vars

C15_Witness ==
    /\ lastCall.err = ErrInsufficientStock
    /\ \E w \in Workers : catalogTx.tx[w].pc = "open" /\ catalogTx.tx[w].rows # <<>>
    /\ productDb.products[1].stock_quantity < SeedStock


(* C20: when DecreaseStock(id, qty) returns success the stored stock of    *)
(* the product is lower by qty.                                            *)
C20_DecreaseStockStored ==
    [][\A w \in Workers :
          LET t == catalogTx.tx[w]
          IN  (/\ t.pc = "open" /\ t.op = "DecreaseStock"
               /\ catalogTx'.tx[w].pc = "leaked"
               /\ lastCall' = [op |-> "DecreaseStock", order |-> 0, err |-> NoErr])
                  => productDb'.products[t.items[1].product_id].stock_quantity
                        = productDb.products[t.items[1].product_id].stock_quantity
                              - t.items[1].quantity]_vars

----------------------------------------------------------------------------
(* Properties of ReserveProduct and ProcessPayment *)

(* some item of the list asks, together with the items before it, for more *)
(* units of its product than the catalog holds                             *)
Short(items, db) ==
    \E k \in DOMAIN items :
        ItemQty(SubSeq(items, 1, k), items[k].product_id, 1)
            > db.products[items[k].product_id].stock_quantity

(* C16: when an item of an OrderCreated event cannot be reserved for lack  *)
(* of stock, ReserveProduct fails with ErrInsufficientStock, leaves every  *)
(* product's stock as it was (earlier items of the event included), writes *)
(* no InventoryReserved row, and the order keeps its status.               *)
C16_FailedReservationChangesNothing ==
    [][lastCall'.op = "ReserveProduct" =>
          \A ev \in OrderCreatedEvents, f \in 0..4 :
             (CallReserveProduct(ev, f) /\ Short(ev.items, productDb))
                 => /\ productDb' = productDb
                    /\ orderDb' = orderDb
                    /\ lastCall'.err # NoErr
                    /\ f \in {0, 3, 4} => lastCall'.err = ErrInsufficientStock]_vars

C16_Witness ==
    /\ lastCall.op = "ReserveProduct"
    /\ lastCall.err = ErrInsufficientStock
    /\ productDb.products[1].stock_quantity >= 1
    /\ productDb.outbox = <<>>


(* payment rows of order o *)
PaymentRows(db, o) == { k \in DOMAIN db.payments : db.payments[k].order_id = o }

OutcomeRows(db, o) ==
    { k \in DOMAIN db.outbox : db.outbox[k].payload.payload.order_id = o }

----------------------------------------------------------------------------
(* Properties of the successful saga *)

(* units of product p reserved for the orders from o on *)
RECURSIVE ReservedQty(_, _)
ReservedQty(p, o) ==
    IF o > Len(orderDb.orders) THEN 0
    ELSE (IF Reserved(o) THEN ItemQty(orderDb.orders[o].items, p, 1) ELSE 0)
         + ReservedQty(p, o + 1)

(* units of product p given back by the OrderCancelled messages the        *)
(* catalog has consumed on topic t, from message k on                      *)
RECURSIVE ReturnedQty(_, _, _)
ReturnedQty(p, t, k) ==
    IF k > offsets[ProductGroup][t] THEN 0
    ELSE (IF broker[t][k].event = "OrderCancelled"
          THEN ItemQty(broker[t][k].payload.items, p, 1) ELSE 0)
         + ReturnedQty(p, t, k + 1)

RECURSIVE ReturnedOn(_, _)
ReturnedOn(p, ts) ==
    IF ts = {} THEN 0
    ELSE LET t == CHOOSE x \in ts : TRUE
         IN  ReturnedQty(p, t, 1) + ReturnedOn(p, ts \ {t})

(* units of product p ordered by the committed orders from o2 on that are  *)
(* not reserved yet                                                        *)
RECURSIVE WaitingQty(_, _)
WaitingQty(p, o2) ==
    IF o2 > Len(orderDb.orders) THEN 0
    ELSE (IF ~Reserved(o2) THEN ItemQty(orderDb.orders[o2].items, p, 1) ELSE 0)
         + WaitingQty(p, o2 + 1)

(* order o with an odd id is committed and its products are in stock *)
OddOrderInStock(o) ==
    /\ o \in DOMAIN orderDb.orders
    /\ o % 2 = 1
    /\ \A p \in DOMAIN productDb.products :
          WaitingQty(p, 1) <= productDb.products[p].stock_quantity

(* order o is paid, its OrderCreated row is published, its reservation is  *)
(* committed, and the stock is the initial stock less the reservations     *)
(* that were not given back                                                *)
PaidAndReserved(o) ==
    /\ o \in DOMAIN orderDb.orders
    /\ StatusOf(orderDb, o) = "paid"
    /\ \E k \in DOMAIN orderDb.outbox :
          /\ orderDb.outbox[k].event_type = "OrderCreated"
          /\ orderDb.outbox[k].aggregate_id = ToString(o)
          /\ orderDb.outbox[k].published_at # NULL
    /\ Reserved(o)
    /\ \A p \in DOMAIN productDb.products :
          productDb.products[p].stock_quantity =
              InitProductDb.products[p].stock_quantity
                  - ReservedQty(p, 1) + ReturnedOn(p, Subscriptions[ProductGroup])

----------------------------------------------------------------------------
(* Properties of the message envelope *)

(* C21: every message on the broker is an object with exactly the two      *)
(* top-level keys event and payload, the type-specific fields being inside *)
(* payload (the event_id the relay adds is not counted).                   *)
C21_EnvelopeHasEventAndPayload ==
    \A t \in Topics : \A k \in DOMAIN broker[t] :
        DOMAIN broker[t][k] \ {"event_id"} = {"event", "payload"}

----------------------------------------------------------------------------
(* Properties of the gateway *)

(* the trip rule on the counts of a window: at least 5 requests with a     *)
(* failure ratio of at least 0.6                                           *)
TripRule(requests, failures) ==
    requests >= 5 /\ 10 * failures >= 6 * requests

(* the step is a request whose handler made its call through breaker t,    *)
(* which was closed                                                        *)
CountedWhileClosed(t) ==
    /\ gateway.cb[t].state = "closed"
    /\ gateway'.served = gateway.served + 1
    /\ gateway'.last.handled
    /\ Target(gateway'.last.route) = t
    /\ gateway'.last.err # "none"

CallFailed == gateway'.last.err # NoErr

(* the counts of the window with the call of this step *)
RequestsAfter(t) == gateway.cb[t].Requests + 1
FailuresAfter(t) == gateway.cb[t].TotalFailures + (IF CallFailed THEN 1 ELSE 0)

(* C22: a closed breaker opens as soon as the counts of the window reach   *)
(* at least 5 requests with a failure ratio of at least 0.6, and not       *)
(* before.                                                                 *)
C22_OpensAsSoonAsReached ==
    [][\A t \in Targets :
          CountedWhileClosed(t) =>
              (gateway'.cb[t].state = "open"
                  <=> TripRule(RequestsAfter(t), FailuresAfter(t)))]_vars

(* C22 as amended: a closed breaker opens exactly when a call fails and    *)
(* the counts of the window, that call included, satisfy the rule; a       *)
(* successful call leaves it closed whatever the counts.                   *)
C22_OpensOnFailureWhenReached ==
    [][\A t \in Targets :
          CountedWhileClosed(t) =>
              (gateway'.cb[t].state = "open"
                  <=> (CallFailed /\ TripRule(RequestsAfter(t), FailuresAfter(t))))]_vars

C22_Witness ==
    \E t \in Targets :
        /\ gateway.cb[t].state = "open"
        /\ gateway.last.handled /\ Target(gateway.last.route) = t
        /\ gateway.last.err \notin {NoErr, "none", ErrOpenState}

(* C23: when a handler's breaker rejects the call because it is open the   *)
(* response is 503.                                                        *)
C23_OpenBreakerIs503 ==
    gateway.last.err = ErrOpenState => gateway.last.status = 503

(* C24: while the breaker of a service is open no request of the gateway   *)
(* reaches that service, the ValidateUser call of the auth middleware      *)
(* included.                                                               *)
C24_NoCallWhileOpen ==
    [][\A t \in Targets :
          (gateway.cb[t].state = "open" /\ gateway'.served = gateway.served + 1)
              => t \notin gateway'.last.rpcs]_vars

(* C25: a request to a route under /api reaches its handler only with a    *)
(* token that ValidateUser accepted and whose activation flag is true; an  *)
(* accepted token of an unactivated user gets 403 EMAIL_NOT_VERIFIED and   *)
(* does not reach the handler.                                             *)
C25_OnlyActivatedReachHandlers ==
    gateway.last.route \in ApiRoutes =>
        /\ gateway.last.handled =>
              /\ gateway.last.validated
              /\ gateway.last.token.kind = "claims"
              /\ gateway.last.token.IsActivated
        /\ (gateway.last.token.kind = "claims" /\ ~gateway.last.token.IsActivated)
              => /\ gateway.last.status = 403
                 /\ gateway.last.code = "EMAIL_NOT_VERIFIED"
                 /\ ~gateway.last.handled

C25_Witness ==
    /\ gateway.last.route \in ApiRoutes
    /\ gateway.last.status = 403
    /\ gateway.last.code = "EMAIL_NOT_VERIFIED"
    /\ gateway.last.rpcs = {"auth"}


(* C26: once ResetPassword has succeeded with a token that ForgotPassword   *)
(* issued, every later ResetPassword with that token returns an error and  *)
(* leaves every password as it was; right after the successful reset a     *)
(* login with the new password succeeds and a login with the password the  *)
(* user had before (a different one) fails.                                 *)
PasswordHashes(db) == [k \in DOMAIN db.users |-> db.users[k].password_hash]

HeldToken(db, token) ==
    { k \in DOMAIN db.users : db.users[k].forgot_password_token = token }

C26_UsedTokenIsSpent ==
    [][ /\ reset'.ops = reset.ops + 1 /\ reset'.last.op = "ResetPassword" =>
          LET t == reset'.last.token
              p == reset'.last.password
          IN  /\ (t \in reset.used /\ t \in reset.issued) =>
                    /\ reset'.last.err # NoErr
                    /\ PasswordHashes(authDb') = PasswordHashes(authDb)
              /\ (t \in reset.issued /\ reset'.last.err = NoErr) =>
                    /\ HeldToken(authDb, t) # {}
                    /\ \A k \in HeldToken(authDb, t) :
                         LET e == authDb.users[k].email
                         IN  /\ Login(authDb', <<>>, e, p, 0).err = NoErr
                             /\ \A q \in Passwords :
                                  (q # p /\ authDb.users[k].password_hash = <<"bcrypt", q>>)
                                     => Login(authDb', <<>>, e, q, 0).err # NoErr
      ]_vars

C26_Witness ==
    /\ reset.last.op = "ResetPassword"
    /\ reset.last.reused
    /\ reset.last.token \in reset.issued
    /\ reset.last.err # NoErr
    /\ \E k \in DOMAIN authDb.users :
         authDb.users[k].password_hash # <<"bcrypt", reset.last.password>>


(* C27: after FindByID through the cached service has returned a product,  *)
(* the cache holds the key product:<id> with that product's data and a     *)
(* time to live of ten minutes.                                            *)
C27_FindByIDFillsCache ==
    (cache.last.op = "FindByID" /\ cache.last.err = NoErr) =>
        \E e \in cache.keys :
            /\ e.key = <<"product", cache.last.id>>
            /\ e.val = <<"json", cache.last.product>>
            /\ e.ttl = 600

(* C28: after a delete, a stock decrement, a reservation or a stock return *)
(* of a product, FindByID through the cached service returns the row as it *)
(* is stored, or not-found for a deleted product, never an older copy.     *)
StoredRow(db, id) ==
    [id |-> id, price |-> db.products[id].price,
     stock_quantity |-> db.products[id].stock_quantity]

Live(db, id) == id \in DOMAIN db.products /\ db.products[id].deleted_at = "NULL"

ErrorsIs(err, target) == err = target

(* C29: handling PaymentSucceeded or PaymentFailed for an order id that is *)
(* not stored returns an error matching ErrOrderNotFound and writes        *)
(* nothing: no status change and no outbox row.                            *)
C29_MissingOrderIsErrOrderNotFound ==
    [][ \A o \in OrderIds :
          o \notin DOMAIN orderDb.orders =>
            /\ CallChangeOrderStatus(o, 0) =>
                 ErrorsIs(lastCall'.err, ErrOrderNotFound) /\ orderDb' = orderDb
            /\ CallCancelOrder(o, 0) =>
                 ErrorsIs(lastCall'.err, ErrOrderNotFound) /\ orderDb' = orderDb
      ]_vars

(* the part of C29 about writes: holds *)
MissingOrderWritesNothing ==
    [][ \A o \in OrderIds, f \in 0..5 :
          o \notin DOMAIN orderDb.orders =>
            /\ (f <= 3 /\ CallChangeOrderStatus(o, f)) =>
                 lastCall'.err # NoErr /\ orderDb' = orderDb
            /\ CallCancelOrder(o, f) =>
                 lastCall'.err # NoErr /\ orderDb' = orderDb
      ]_vars


(* C30: HandleUserRegistered stores the {id, email} row for a valid event; *)
(* a redelivery of the event returns no error and leaves exactly one row;  *)
(* an event with user id 0 or an empty email returns an error and stores   *)
(* nothing.                                                                *)
ValidUserEvent(ev) == ev.user_id # 0 /\ ev.email # ""

C30_MirrorStoresValidRejectsInvalid ==
    [][ \A ev \in [user_id : {0, 999}, email : {"a@x.io", ""}] :
          CallHandleUserRegistered(ev, 0) =>
            IF ValidUserEvent(ev)
            THEN /\ lastCall'.err = NoErr
                 /\ { u \in orderDb'.users : u.id = ev.user_id }
                       = {[id |-> ev.user_id, email |-> ev.email]}
            ELSE /\ lastCall'.err # NoErr
                 /\ orderDb' = orderDb
      ]_vars


(* C31: Logout deletes exactly the session that holds the refresh token    *)
(* and leaves every other session in place; Logout with a token that has   *)
(* no session fails with session-not-found and deletes nothing.            *)
HeldBy(sessions, token) == { r \in sessions : r.token = token }

C31_LogoutDeletesOneSession ==
    [][ \A t \in logins.tokens \cup {[kind |-> "garbage", user_id |-> 0,
                                       exp |-> 0, jti |-> 0]} :
          LoginsLogout(t, 0) =>
            IF HeldBy(logins.sessions, t) # {}
            THEN /\ logins'.last.err = NoErr
                 /\ Cardinality(HeldBy(logins.sessions, t)) = 1
                 /\ logins'.sessions = logins.sessions \ HeldBy(logins.sessions, t)
            ELSE /\ logins'.last.err # NoErr
                 /\ logins'.last.cause = "ErrSessionNotFound"
                 /\ logins'.sessions = logins.sessions
      ]_vars

C31_Witness ==
    /\ logins.last.op = "Logout"
    /\ logins.last.err = NoErr
    /\ \E r \in logins.sessions : r.user_id = logins.last.token.user_id

(* C38: Refresh with a token whose session has passed its expiry time      *)
(* deletes that session and returns an error, issuing no new tokens.       *)
ExpiredSession(token) ==
    \E r \in logins.sessions : r.token = token /\ r.expires_at < logins.now

C38_ExpiredSessionIsDeleted ==
    [][ /\ \A w \in Workers, t \in logins.tokens :
             (ExpiredSession(t) /\ RefreshFind(w, t, 0)) =>
                logins'.refresh[w].pc = "found"
        /\ \A w \in Workers :
             (logins.refresh[w].session.expires_at < logins.now /\ RefreshDelete(w, 0)) =>
                /\ logins'.last.err # NoErr
                /\ logins'.last.issued.kind = "none"
                /\ \A r \in logins'.sessions : r.id # logins.refresh[w].session.id
      ]_vars

(* the part of C38 that holds: such a Refresh returns an error, issues no  *)
(* token and creates no session                                            *)
ExpiredRefreshIssuesNothing ==
    [][ \A w \in Workers, t \in logins.tokens :
          (ExpiredSession(t) /\ RefreshFind(w, t, 0)) =>
             /\ logins'.last.err # NoErr
             /\ logins'.last.issued.kind = "none"
             /\ logins'.sessions = logins.sessions
      ]_vars

(* C40: for any interleaving of Refresh calls with the same token at most  *)
(* one returns new tokens and creates a session, and after it the session  *)
(* of the old token is gone.                                               *)
GrantedFor(token) == { g \in logins.granted : g.old = token }

C40_OneRefreshPerToken ==
    \A t \in logins.tokens :
        /\ Cardinality(GrantedFor(t)) <= 1
        /\ GrantedFor(t) # {} => \A r \in logins.sessions : r.token # t

C40_Witness ==
    /\ logins.last.op = "Refresh"
    /\ logins.last.at = "DeleteSessionByID"
    /\ logins.last.err = "ErrSessionNotFound"
    /\ GrantedFor(logins.last.token) # {}


(* C39: ResetPassword and VerifyUser succeed only with a token that was     *)
(* issued to a user and has not been consumed; any other token, the empty  *)
(* string that replaces a consumed token included, matches no user and     *)
(* changes no password hash and no activation flag.                        *)
Unheld(t) == t \notin reset.issued \/ t \in reset.used

SameCredentials ==
    /\ DOMAIN authDb'.users = DOMAIN authDb.users
    /\ \A k \in DOMAIN authDb.users :
         /\ authDb'.users[k].password_hash = authDb.users[k].password_hash
         /\ authDb'.users[k].is_activated = authDb.users[k].is_activated

C39_OnlyHeldTokensMatch ==
    [][ /\ \A t \in PresentedTokens, p \in ResetPasswords :
             ResetResetPassword(t, p, 0) /\ Unheld(t)
                 => reset'.last.err # NoErr /\ SameCredentials
        /\ \A t \in PresentedTokens :
             ResetVerify(t, 0) /\ Unheld(t)
                 => reset'.last.err # NoErr /\ SameCredentials
      ]_vars


(* C36: for an event id not yet recorded, ProcessWithDeduplication invokes *)
(* the side effect at most 3 times and not again after its first success;  *)
(* when all 3 invocations fail the call commits no processed_events row    *)
(* and returns an error.                                                   *)
C36_AtMostThreeInvocations ==
    [][ \A h \in Handlers, ok \in BOOLEAN :
          DedupAction(h, ok)
              => /\ inbox[h].i + 1 <= 3
                 /\ ok => inbox'[h].pc = "commit"
                 /\ ~ok /\ inbox[h].i + 1 < 3 => inbox'[h].pc = "action"
                 /\ ~ok /\ inbox[h].i + 1 = 3
                        => /\ inbox'[h].pc = "idle"
                           /\ inbox'[h].result = "error"
                           /\ notifDb' = notifDb
      ]_vars

(* a call whose three invocations failed, with no database fault around *)
C36_Witness ==
    \E h \in Handlers :
        /\ inbox[h].pc = "idle"
        /\ inbox[h].result = "error"
        /\ env.dbFaults = 0
        /\ ~\E k \in DOMAIN notifDb.processed_events :
               notifDb.processed_events[k] = inbox[h].event_id


(* C37: every handler that opens a local transaction has ended it when it  *)
(* returns: the transaction is committed or rolled back on every exit      *)
(* path, and no row lock or connection stays held after the return.        *)
C37_TransactionEndedOnReturn ==
    [][ \A w \in Workers :
          catalogTx.tx[w].pc = "open" /\ catalogTx'.tx[w].pc # "open"
              => /\ catalogTx'.tx[w].pc = "idle"
                 /\ catalogTx'.tx[w].rows = <<>>
      ]_vars


(* C33: for every outbox row the number of failed publish attempts that    *)
(* the relays make for it never exceeds MAX_ATTEMPTS (10), whatever        *)
(* publish, bookkeeping or commit failures occur.                          *)
C33_FailedAttemptsBounded ==
    \A id \in 1..MaxOutbox : env.failed[id] <= 10

(* the attempts the rows record stay bounded *)
RecordedAttemptsBounded ==
    \A id \in DOMAIN orderDb.outbox :
        /\ orderDb.outbox[id].attempts <= 10
        /\ orderDb.outbox[id].attempts <= env.failed[id]


(* C35: a row whose published time is set never goes back to unpublished   *)
(* through relay activity, for any number of concurrent relay instances    *)
(* and any publish failures.                                               *)
C35_PublishedStaysPublished ==
    [][ \A id \in DOMAIN orderDb.outbox :
          orderDb.outbox[id].published_at # NULL
              => orderDb'.outbox[id].published_at # NULL
      ]_vars

(* a published row next to a row whose publish failed, a relay at work *)
C35_Witness ==
    /\ \E id \in DOMAIN orderDb.outbox : orderDb.outbox[id].published_at # NULL
    /\ \E id \in DOMAIN orderDb.outbox :
          /\ orderDb.outbox[id].published_at = NULL
          /\ orderDb.outbox[id].attempts > 0
    /\ \E i \in Relays : relay[i].pc = "publish" /\ ~env.brokerUp


(* a broker message of row id exists, the row is stored unpublished and no *)
(* relay holds it: the tick that sent it was rolled back                   *)
RolledBackAfterAck(id) ==
    /\ id \in DOMAIN orderDb.outbox
    /\ orderDb.outbox[id].published_at = NULL
    /\ SentCount(broker, id) >= 1
    /\ \A i \in Relays : id \notin BatchOf(relay[i])

(* a tick ends without its commit taking effect: the outbox is as before *)
TickRolledBack(i) ==
    /\ relay[i].pc = "publish"
    /\ relay'[i].pc = "idle"
    /\ \/ RelayPublish(i, TRUE)
       \/ (RelayPublish(i, FALSE) /\ relay[i].aborted)
       \/ RelayCommit(i, TRUE)
       \/ (RelayCommit(i, FALSE) /\ relay[i].aborted)

C34_SentInInsertionOrder ==
    \A j, k \in 1..Len(feed.sent) : j < k => feed.sent[j] < feed.sent[k]

====
